---- MODULE Spec2Model ----
(***************************************************************************)
(* Model of the vector store abstraction of test_rag                       *)
(* (app/vector_db/manager.py, qdrant.py, chroma.py): one manager object    *)
(* of either backend variant, the backend server it talks to, and the      *)
(* embedder collaborator.  Every public method is one atomic action; the   *)
(* record `last` keeps what the most recent call was given, what it        *)
(* returned or raised, and which calls it issued to the backend client     *)
(* and to the embedder.  recreate_collection is also modelled one backend  *)
(* call at a time (rc), so that other calls can fall between its steps.    *)
(* The ingestion side (app/parsers, app/chunker) is modelled next to it:   *)
(* the CVCollection object with its parser and clock, and the sentence     *)
(* chunker as a function of its arguments.                                 *)
(***************************************************************************)
EXTENDS Integers, Sequences, FiniteSets, TLC

VARIABLES kind, hasEmbedder, is_connected, client, store, last, tr, rc,
          cvs, cv_chunks, project_chunks, now, ing, ck, nz

vars == <<kind, hasEmbedder, is_connected, client, store, last, tr, rc,
          cvs, cv_chunks, project_chunks, now, ing, ck, nz>>

\* the manager object, its backend and its call record
managerVars == <<kind, hasEmbedder, is_connected, client, store, last>>

\* the state of one run of the filter translator
translatorVars == <<tr>>

\* the CVCollection object, the clock its parser reads, and its call record
ingestVars == <<cvs, cv_chunks, project_chunks, now, ing>>

\* one call of the chunker
chunkerVars == <<ck>>

\* one call of the text normalizer
normalizerVars == <<nz>>

\* what no method of the manager touches, recreate_collection apart
outsideManager == <<tr, rc, ingestVars, chunkerVars, normalizerVars>>

(* ------------------------------ bounds -------------------------------- *)

\* longest list handed to insert_documents
MaxBatch == 2
\* largest limit handed to search / filtered_search / search_by_text
MaxLimit == 2
\* longest `values` list of a filter field
MaxValues == 2

\* the longest text given to the chunker, in sentences
MaxSentences == 3

\* the most data rows of a projects table
MaxRows == 2

\* the last reading of the clock
MaxTime == 3

\* the words of a text given to chunk_by_words
MaxWords == 3

\* the characters of a text given to chunk_by_fixed_size
MaxChars == 4

\* the characters of a language entry
MaxEntry == 4

\* the lines given to extract_between_markers
MaxLines == 4

\* the CVs of a collection
MaxCvs == 2

\* the calls of generate_chunks on one collection
MaxGenerate == 2

(* ------------------------------ helpers ------------------------------- *)

Range(s) == {s[i] : i \in DOMAIN s}

Min2(a, b) == IF a <= b THEN a ELSE b

Abs(a) == IF a < 0 THEN 0 - a ELSE a

SeqsUpTo(S, n) == UNION {[1..k -> S] : k \in 0..n}

Prefix(s, n) == SubSeq(s, 1, n)

(* ----------------------------- the data ------------------------------- *)

\* VectorDBType
VectorDBType == {"chroma", "qdrant"}

\* the one collection name the calls use
Collections == {"cvs"}

CollectionOrder == <<"cvs">>

\* the python None, where a string is expected
NoneVal == "<None>"

\* chunk records a caller may hand to insert_documents: id, text, metadata
Catalog ==
    { [id |-> "cv1_chunk#1", text |-> "python",
       metadata |-> [level |-> "SENIOR", languages |-> {"english", "german"}]],
      [id |-> "cv2_chunk#1", text |-> "java",
       metadata |-> [level |-> "LEAD", languages |-> {"english"}]] }

\* the arguments (ids, documents, metadatas) of insert_documents: three lists
\* of one length, or one of the three shorter than the other two
Shortened(b, which, n) ==
    [ids       |-> Prefix([i \in DOMAIN b |-> b[i].id],
                          IF which = "ids" THEN n ELSE Len(b)),
     documents |-> Prefix([i \in DOMAIN b |-> b[i].text],
                          IF which = "documents" THEN n ELSE Len(b)),
     metadatas |-> Prefix([i \in DOMAIN b |-> b[i].metadata],
                          IF which = "metadatas" THEN n ELSE Len(b))]

InsertArgs ==
    UNION { { Shortened(b, which, n) :
              which \in {"ids", "documents", "metadatas"}, n \in 0..Len(b) } :
            b \in SeqsUpTo(Catalog, MaxBatch) }

\* query strings: None, the empty string, and a text
QueryTexts == {NoneVal, "", "python"}

Limits == 0..MaxLimit

(* ---------------------------- the embedder ---------------------------- *)

\* BaseEmbedder.get_embeddings on one text: a vector, here one coordinate
EmbedOne(t) ==
    CASE t = "python" -> 2
      [] t = "java"   -> 0
      [] OTHER        -> 1

\* BaseEmbedder.get_embeddings(texts): one vector per text, in order
get_embeddings(texts) == [i \in DOMAIN texts |-> EmbedOne(texts[i])]

\* the backend's similarity of a query vector and a stored vector
Similarity(q, v) == 2 - Abs(q - v)

(* ------------------------ failures of collaborators ------------------ *)

\* where a call to the backend client may raise during one operation: nowhere
\* (0), or at the first .. n-th call the operation makes; an operation of a
\* manager that is not connected makes none
BackendFailures(n) == IF is_connected THEN 0..n ELSE {0}

\* whether the embedder raises when it is asked
EmbedderFailures(asked) == IF asked THEN BOOLEAN ELSE {FALSE}

(* ------------------------- the call record ---------------------------- *)

\* the record of a call before anything happened in it; prev_op is the
\* operation called before it, kept for connect and disconnect
BlankRec(op, conn, prev) ==
    [op |-> op, prev_op |-> prev,
     col |-> "", ids |-> <<>>, documents |-> <<>>, metadatas |-> <<>>,
     query |-> NoneVal, embedding |-> -1, limit |-> -1, filters |-> <<>>,
     filtersIsDict |-> TRUE,
     rbool |-> FALSE, rlist |-> <<>>, rcount |-> 0, rdims |-> -1,
     raised |-> "none", bcalls |-> <<>>, ecalls |-> 0,
     bfailed |-> FALSE, efailed |-> FALSE, was_connected |-> conn]

Blank(op) ==
    BlankRec(op, is_connected,
             IF op \in {"connect", "disconnect"} THEN last.op ELSE "")

(* ------------------------ the backend server -------------------------- *)

Absent == [exists |-> FALSE, points |-> <<>>]

Empty == [exists |-> TRUE, points |-> <<>>]

Exists(c) == store[c].exists

\* names of the collections the server holds
ServerCollections == SelectSeq(CollectionOrder, LAMBDA c : Exists(c))

(* --------------------------- construction ----------------------------- *)

\* VectorDBManager.__init__ / QdrantManager.__init__ / ChromaManager.__init__:
\* the Qdrant manager refuses to be built without an embedder
ManagerInit ==
    /\ kind \in VectorDBType
    /\ hasEmbedder \in BOOLEAN
    /\ (kind = "qdrant" => hasEmbedder)
    /\ is_connected = FALSE
    /\ client = "None"
    /\ store \in [Collections -> {Absent, Empty}]
    /\ last = BlankRec("init", FALSE, "")

(* ----------------------- connect / disconnect ------------------------- *)

\* connect that forgets to clear the flag when the session cannot be set up
connect_keeps_flag(outcome) ==
    /\ client' = IF outcome = "ctor_raises" THEN client ELSE "handle"
    /\ is_connected' = (is_connected \/ outcome = "ok")
    /\ last' = [Blank("connect") EXCEPT
                   !.rbool = (outcome = "ok"),
                   !.bfailed = (outcome # "ok"),
                   !.bcalls = IF outcome = "ctor_raises" THEN <<>>
                              ELSE <<[m |-> "verify"]>>]
    /\ UNCHANGED <<outsideManager, kind, hasEmbedder, store>>

\* connect: the client constructor may raise (client keeps its old value), the
\* verification call may raise (client is set), or both succeed
connect(outcome) ==
    /\ client' = IF outcome = "ctor_raises" THEN client ELSE "handle"
    /\ is_connected' = (outcome = "ok")
    /\ last' = [Blank("connect") EXCEPT
                   !.rbool = (outcome = "ok"),
                   !.bfailed = (outcome # "ok"),
                   !.bcalls = IF outcome = "ctor_raises" THEN <<>>
                              ELSE <<[m |-> "verify"]>>]
    /\ UNCHANGED <<outsideManager, kind, hasEmbedder, store>>

Connect == \E outcome \in {"ok", "ctor_raises", "verify_raises"} : connect(outcome)

\* a disconnect that drops the client and leaves the flag as it is
disconnect_keeps_flag ==
    /\ client' = "None"
    /\ is_connected' = is_connected
    /\ last' = [Blank("disconnect") EXCEPT !.rbool = TRUE]
    /\ UNCHANGED <<outsideManager, kind, hasEmbedder, store>>

disconnect ==
    /\ client' = "None"
    /\ is_connected' = FALSE
    /\ last' = [Blank("disconnect") EXCEPT !.rbool = TRUE]
    /\ UNCHANGED <<outsideManager, kind, hasEmbedder, store>>

Disconnect == disconnect

(* ------------------------ collection lifecycle ------------------------ *)

\* list_collections
list_collections(bfail) ==
    /\ last' = IF ~is_connected THEN Blank("list_collections")
               ELSE [Blank("list_collections") EXCEPT
                        !.bcalls = <<[m |-> "get_collections"]>>,
                        !.bfailed = bfail,
                        !.rlist = IF bfail THEN <<>> ELSE ServerCollections]
    /\ UNCHANGED <<outsideManager, kind, hasEmbedder, is_connected, client, store>>

ListCollections == \E bfail \in BackendFailures(1) : list_collections(bfail # 0)

\* the embedder's declared dimensionality
Dimensions == 1

\* get_collection_info: Qdrant asks for the collection and then for its count;
\* Chroma asks for the collection and counts on the handle
get_collection_info(name, bfail) ==
    /\ last' =
         IF ~is_connected THEN [Blank("get_collection_info") EXCEPT !.col = name]
         ELSE LET first == [m |-> "get_collection", col |-> name]
                  second == [m |-> "count", col |-> name]
                  fail1 == bfail = 1 \/ ~Exists(name)
                  fail2 == bfail = 2
              IN  [Blank("get_collection_info") EXCEPT
                      !.col = name,
                      !.bcalls = IF fail1 THEN <<first>> ELSE <<first, second>>,
                      !.bfailed = fail1 \/ fail2,
                      !.rcount = IF fail1 \/ fail2 THEN 0
                                 ELSE Len(store[name].points),
                      !.rdims = IF fail1 \/ fail2 \/ kind = "chroma" THEN -1
                                ELSE Dimensions]
    /\ UNCHANGED <<outsideManager, kind, hasEmbedder, is_connected, client, store>>

GetCollectionInfo ==
    \E name \in Collections, bfail \in BackendFailures(2) :
        get_collection_info(name, bfail)

\* create_collection: the server refuses a name it already holds
create_collection(name, bfail) ==
    LET failed == bfail \/ Exists(name)
    IN  /\ last' =
             IF ~is_connected THEN [Blank("create_collection") EXCEPT !.col = name]
             ELSE [Blank("create_collection") EXCEPT
                      !.col = name,
                      !.bcalls = <<[m |-> "create_collection", col |-> name]>>,
                      !.bfailed = failed,
                      !.rbool = ~failed]
        /\ store' = IF is_connected /\ ~failed
                    THEN [store EXCEPT ![name] = Empty] ELSE store
        /\ UNCHANGED <<outsideManager, kind, hasEmbedder, is_connected, client>>

CreateCollection ==
    \E name \in Collections, bfail \in BackendFailures(1) :
        create_collection(name, bfail # 0)

\* delete_collection: Chroma raises for a name the server does not hold, Qdrant
\* answers without raising
delete_collection(name, bfail) ==
    LET failed == bfail \/ (kind = "chroma" /\ ~Exists(name))
    IN  /\ last' =
             IF ~is_connected THEN [Blank("delete_collection") EXCEPT !.col = name]
             ELSE [Blank("delete_collection") EXCEPT
                      !.col = name,
                      !.bcalls = <<[m |-> "delete_collection", col |-> name]>>,
                      !.bfailed = failed,
                      !.rbool = ~failed]
        /\ store' = IF is_connected /\ ~failed
                    THEN [store EXCEPT ![name] = Absent] ELSE store
        /\ UNCHANGED <<outsideManager, kind, hasEmbedder, is_connected, client>>

DeleteCollection ==
    \E name \in Collections, bfail \in BackendFailures(1) :
        delete_collection(name, bfail # 0)

(* ------------------------- filter specifications ---------------------- *)

\* python values a filter may list: strings, an integer, a boolean
PyStrVal(x) == [t |-> "str", v |-> x]

PyValues == {PyStrVal("SENIOR"), PyStrVal("LEAD"), PyStrVal("english")}

FalsyScalars == {PyStrVal(""), [t |-> "int", v |-> "0"], [t |-> "bool", v |-> "False"]}

\* python truthiness of a scalar
Falsy(x) ==
    \/ (x.t = "str" /\ x.v = "")
    \/ (x.t = "int" /\ x.v = "0")
    \/ (x.t = "bool" /\ x.v = "False")
    \/ x.t = "none"

\* the `values` entry of a field's config: a list or a scalar
ListOf(items) == [isList |-> TRUE, items |-> items, scalar |-> [t |-> "none", v |-> ""]]

ScalarOf(x) == [isList |-> FALSE, items |-> <<>>, scalar |-> x]

\* a field's config that is not a mapping (a bare string, say)
NotAMapping ==
    [isDict |-> FALSE, hasMust |-> FALSE, must |-> FALSE,
     hasValues |-> FALSE, values |-> ListOf(<<>>)]

ValuesChoices ==
    {ListOf(l) : l \in SeqsUpTo(PyValues, MaxValues)}
        \cup {ScalarOf(x) : x \in FalsyScalars \cup {PyStrVal("SENIOR")}}

\* the configs of a field: not a mapping, or a mapping with or without the
\* keys "must" and "values"
FieldConfigs ==
    {NotAMapping}
    \cup {[isDict |-> TRUE, hasMust |-> FALSE, must |-> FALSE,
           hasValues |-> FALSE, values |-> ListOf(<<>>)]}
    \cup {[isDict |-> TRUE, hasMust |-> FALSE, must |-> FALSE,
           hasValues |-> TRUE, values |-> v] : v \in ValuesChoices}
    \cup {[isDict |-> TRUE, hasMust |-> TRUE, must |-> m,
           hasValues |-> TRUE, values |-> v] : m \in BOOLEAN, v \in ValuesChoices}
    \cup {[isDict |-> TRUE, hasMust |-> TRUE, must |-> m,
           hasValues |-> FALSE, values |-> ListOf(<<>>)] : m \in BOOLEAN}

FieldNames == {"level", "languages"}

\* filter dicts: fields in insertion order, no name twice
FilterDicts ==
    {f \in SeqsUpTo([name : FieldNames, config : FieldConfigs], Cardinality(FieldNames)) :
        \A i, j \in DOMAIN f : i # j => f[i].name # f[j].name}

(* --------------------------- filter translator ------------------------ *)

\* filter_config.get("must", True)
GetMust(cfg) == IF cfg.hasMust THEN cfg.must ELSE TRUE

\* filter_config.get("values", [])
GetValues(cfg) == IF cfg.hasValues THEN cfg.values ELSE ListOf(<<>>)

\* `not values`: an empty list or a falsy scalar
NotValues(values) ==
    IF values.isList THEN Len(values.items) = 0 ELSE Falsy(values.scalar)

\* if not isinstance(values, list): values = [values]
CoerceToList(values) == IF values.isList THEN values.items ELSE <<values.scalar>>

\* f"metadata.{field_name}"
FieldPath(field_name) == "metadata." \o field_name

\* a must field translated as one any-of condition
FieldMustConditions_any(field_name, cfg) ==
    IF ~cfg.isDict THEN <<>>
    ELSE IF NotValues(GetValues(cfg)) THEN <<>>
    ELSE LET values == CoerceToList(GetValues(cfg))
         IN  IF GetMust(cfg)
             THEN << [key |-> FieldPath(field_name), match |-> [any |-> values]] >>
             ELSE <<>>

\* what one field appends to must_conditions
FieldMustConditions(field_name, cfg) ==
    IF ~cfg.isDict THEN <<>>
    ELSE IF NotValues(GetValues(cfg)) THEN <<>>
    ELSE LET values == CoerceToList(GetValues(cfg))
         IN  IF GetMust(cfg)
             THEN [i \in DOMAIN values |->
                      [key |-> FieldPath(field_name), match |-> [value |-> values[i]]]]
             ELSE <<>>

\* what one field appends to should_conditions
FieldShouldConditions(field_name, cfg) ==
    IF ~cfg.isDict THEN <<>>
    ELSE IF NotValues(GetValues(cfg)) THEN <<>>
    ELSE LET values == CoerceToList(GetValues(cfg))
         IN  IF GetMust(cfg) THEN <<>>
             ELSE << [key |-> FieldPath(field_name), match |-> [any |-> values]] >>

\* the end of _build_filter_from_format: None when nothing was collected
NoFilter == [present |-> FALSE, must |-> <<>>, should |-> <<>>]

MakeFilter(must_conditions, should_conditions) ==
    IF Len(must_conditions) = 0 /\ Len(should_conditions) = 0 THEN NoFilter
    ELSE [present |-> TRUE, must |-> must_conditions, should |-> should_conditions]

RECURSIVE CollectMust(_)
CollectMust(filters) ==
    IF Len(filters) = 0 THEN <<>>
    ELSE FieldMustConditions(Head(filters).name, Head(filters).config)
            \o CollectMust(Tail(filters))

RECURSIVE CollectShould(_)
CollectShould(filters) ==
    IF Len(filters) = 0 THEN <<>>
    ELSE FieldShouldConditions(Head(filters).name, Head(filters).config)
            \o CollectShould(Tail(filters))

\* _build_filter_from_format as one function
build_filter_from_format(filters) ==
    MakeFilter(CollectMust(filters), CollectShould(filters))

\* the translator run field by field
TranslatorIdle ==
    tr = [filters |-> <<>>, i |-> 1, must_conditions |-> <<>>,
          should_conditions |-> <<>>, skipped |-> {}, pc |-> "idle", out |-> NoFilter]

TranslatorInit ==
    \E f \in FilterDicts :
        tr = [filters |-> f, i |-> 1, must_conditions |-> <<>>,
              should_conditions |-> <<>>, skipped |-> {}, pc |-> "loop", out |-> NoFilter]

CurrentField == tr.filters[tr.i]

\* the two `continue` branches of the loop
SkipField ==
    /\ tr.pc = "loop" /\ tr.i <= Len(tr.filters)
    /\ \/ ~CurrentField.config.isDict
       \/ (CurrentField.config.isDict /\ NotValues(GetValues(CurrentField.config)))
    /\ tr' = [tr EXCEPT !.i = @ + 1, !.skipped = @ \cup {CurrentField.name}]
    /\ UNCHANGED <<managerVars, rc, ingestVars, chunkerVars, nz>>

\* a field that passes both checks
TranslateField ==
    /\ tr.pc = "loop" /\ tr.i <= Len(tr.filters)
    /\ CurrentField.config.isDict
    /\ ~NotValues(GetValues(CurrentField.config))
    /\ tr' = [tr EXCEPT
                !.i = @ + 1,
                !.must_conditions =
                    @ \o FieldMustConditions(CurrentField.name, CurrentField.config),
                !.should_conditions =
                    @ \o FieldShouldConditions(CurrentField.name, CurrentField.config)]
    /\ UNCHANGED <<managerVars, rc, ingestVars, chunkerVars, nz>>

\* after the loop: the filter, or None
FinishFilter ==
    /\ tr.pc = "loop" /\ tr.i > Len(tr.filters)
    /\ tr' = [tr EXCEPT !.pc = "done",
                        !.out = MakeFilter(tr.must_conditions, tr.should_conditions)]
    /\ UNCHANGED <<managerVars, rc, ingestVars, chunkerVars, nz>>

(* ------------------------- stored records ----------------------------- *)

\* s ordered by descending key[i], equal keys in their order in s
StableSortDesc(s, key) ==
    LET n == Len(s)
        pos(i) == 1 + Cardinality({j \in 1..n :
                        \/ key[j] > key[i]
                        \/ (key[j] = key[i] /\ j < i)})
    IN  [p \in 1..n |-> s[CHOOSE i \in 1..n : pos(i) = p]]

\* a server that keeps every point it is sent
UpsertPoints_append(old, new) == old \o new

\* the server's upsert: a point replaces the stored point of the same numeric
\* id, the others are kept; points are held in id order
UpsertPoints(old, new) ==
    LET keep == SelectSeq(old, LAMBDA p : \A j \in DOMAIN new : new[j].id # p.id)
        all == keep \o new
    IN  StableSortDesc(all, [i \in DOMAIN all |-> 0 - all[i].id])

\* the points insert_documents builds: enumerate(zip(ids, embeddings,
\* documents, metadatas)) stops at the shortest list; the point id is the
\* position, the caller's id goes into the payload
BuildPoints(ids, embeddings, documents, metadatas) ==
    LET n == Min2(Min2(Len(ids), Len(embeddings)),
                  Min2(Len(documents), Len(metadatas)))
    IN  [i \in 1..n |->
            [id |-> i - 1,
             vector |-> embeddings[i],
             payload |-> [document |-> documents[i],
                          metadata |-> metadatas[i],
                          text_id  |-> ids[i]]]]

\* Chroma's collection.add: records keyed by the caller's id; an id the
\* collection already holds is left as it is
AddRecords(old, ids, embeddings, documents, metadatas) ==
    LET new == [i \in DOMAIN ids |->
                  [id |-> ids[i], vector |-> embeddings[i],
                   payload |-> [document |-> documents[i],
                                metadata |-> metadatas[i],
                                text_id  |-> ids[i]]]]
    IN  old \o SelectSeq(new, LAMBDA r : \A j \in DOMAIN old : old[j].id # r.id)

\* Chroma's collection.add refuses lists of different lengths, an empty batch
\* and an id given twice
AddRefuses(ids, embeddings, documents, metadatas) ==
    \/ Len(ids) = 0
    \/ Len(ids) # Len(documents)
    \/ Len(ids) # Len(metadatas)
    \/ Len(ids) # Len(embeddings)
    \/ \E i, j \in DOMAIN ids : i # j /\ ids[i] = ids[j]

(* -------------------------- insert_documents -------------------------- *)

\* insert_documents that creates the collection it finds missing
QdrantInsert_recreates(c, a, bfail, efail) ==
    LET base == [Blank("insert_documents") EXCEPT
                    !.col = c, !.ids = a.ids, !.documents = a.documents,
                    !.metadatas = a.metadatas]
        points == BuildPoints(a.ids, get_embeddings(a.documents),
                              a.documents, a.metadatas)
        failed == bfail # 0
    IN  IF ~is_connected THEN
            /\ last' = base
            /\ store' = store
        ELSE IF efail THEN
            /\ last' = [base EXCEPT !.ecalls = 1, !.efailed = TRUE]
            /\ store' = store
        ELSE
            /\ last' = [base EXCEPT
                          !.ecalls = 1,
                          !.bcalls = <<[m |-> "upsert", col |-> c, points |-> points]>>,
                          !.bfailed = failed,
                          !.rbool = ~failed]
            /\ store' = IF failed THEN store
                        ELSE [store EXCEPT ![c] = [exists |-> TRUE,
                                                   points |-> UpsertPoints(@.points, points)]]

\* QdrantManager.insert_documents
QdrantInsert(c, a, bfail, efail) ==
    LET base == [Blank("insert_documents") EXCEPT
                    !.col = c, !.ids = a.ids, !.documents = a.documents,
                    !.metadatas = a.metadatas]
        points == BuildPoints(a.ids, get_embeddings(a.documents),
                              a.documents, a.metadatas)
        failed == bfail # 0 \/ ~Exists(c)
    IN  IF ~is_connected THEN
            /\ last' = base
            /\ store' = store
        ELSE IF efail THEN
            /\ last' = [base EXCEPT !.ecalls = 1, !.efailed = TRUE]
            /\ store' = store
        ELSE
            /\ last' = [base EXCEPT
                          !.ecalls = 1,
                          !.bcalls = <<[m |-> "upsert", col |-> c, points |-> points]>>,
                          !.bfailed = failed,
                          !.rbool = ~failed]
            /\ store' = IF failed THEN store
                        ELSE [store EXCEPT ![c].points = UpsertPoints(@, points)]

ChromaInsert(c, a, bfail, efail) ==
    LET base == [Blank("insert_documents") EXCEPT
                    !.col = c, !.ids = a.ids, !.documents = a.documents,
                    !.metadatas = a.metadatas]
        getc == [m |-> "get_collection", col |-> c]
        embeddings == get_embeddings(a.documents)
        add == [m |-> "add", col |-> c, ids |-> a.ids, documents |-> a.documents,
                metadatas |-> a.metadatas, embedded |-> hasEmbedder]
        failed == bfail = 2 \/ AddRefuses(a.ids, embeddings, a.documents, a.metadatas)
    IN  IF ~is_connected THEN
            /\ last' = base
            /\ store' = store
        ELSE IF bfail = 1 \/ ~Exists(c) THEN
            /\ last' = [base EXCEPT !.bcalls = <<getc>>, !.bfailed = TRUE]
            /\ store' = store
        ELSE IF hasEmbedder /\ efail THEN
            /\ last' = [base EXCEPT !.bcalls = <<getc>>, !.ecalls = 1,
                                    !.efailed = TRUE]
            /\ store' = store
        ELSE
            /\ last' = [base EXCEPT
                          !.bcalls = <<getc, add>>,
                          !.ecalls = IF hasEmbedder THEN 1 ELSE 0,
                          !.bfailed = failed,
                          !.rbool = ~failed]
            /\ store' = IF failed THEN store
                        ELSE [store EXCEPT ![c].points =
                                 AddRecords(@, a.ids, embeddings,
                                            a.documents, a.metadatas)]

insert_documents(c, a, bfail, efail) ==
    /\ IF kind = "qdrant" THEN QdrantInsert(c, a, bfail, efail)
                          ELSE ChromaInsert(c, a, bfail, efail)
    /\ UNCHANGED <<outsideManager, kind, hasEmbedder, is_connected, client>>

InsertDocuments ==
    \E c \in Collections, a \in InsertArgs,
       bfail \in BackendFailures(IF kind = "qdrant" THEN 1 ELSE 2),
       efail \in EmbedderFailures(is_connected /\ hasEmbedder) :
        insert_documents(c, a, bfail, efail)

(* ------------------------------ queries ------------------------------- *)

\* no query_embedding given
NoVec == -1

QueryEmbeddings == {NoVec, 0}

\* the limit the Qdrant client applies when query_points is given none
DefaultLimit == 10

\* the values a payload holds under a filter key
PayloadValues(payload, key) ==
    CASE key = "metadata.level"     -> {payload.metadata.level}
      [] key = "metadata.languages" -> payload.metadata.languages
      [] OTHER                      -> {}

\* one condition on one payload: match.value, or match.any
ConditionHolds(payload, cond) ==
    IF "value" \in DOMAIN cond.match
    THEN cond.match.value.t = "str"
         /\ cond.match.value.v \in PayloadValues(payload, cond.key)
    ELSE \E i \in DOMAIN cond.match.any :
            /\ cond.match.any[i].t = "str"
            /\ cond.match.any[i].v \in PayloadValues(payload, cond.key)

\* the server's filter: every must condition, and one should condition if any
FilterHolds(payload, flt) ==
    \/ ~flt.present
    \/ /\ \A i \in DOMAIN flt.must : ConditionHolds(payload, flt.must[i])
       /\ \/ Len(flt.should) = 0
          \/ \E i \in DOMAIN flt.should : ConditionHolds(payload, flt.should[i])

\* the server's answer to query_points: the points that pass the filter, most
\* similar first, at most `limit` of them
QueryPoints(c, q, flt, limit) ==
    LET hits == SelectSeq(store[c].points, LAMBDA p : FilterHolds(p.payload, flt))
        scored == [i \in DOMAIN hits |->
                     [id |-> hits[i].id, payload |-> hits[i].payload,
                      score |-> Similarity(q, hits[i].vector)]]
        ranked == StableSortDesc(scored, [i \in DOMAIN scored |-> scored[i].score])
    IN  Prefix(ranked, Min2(limit, Len(ranked)))

\* the response object as the loop of _format_results sees it: iterating it
\* yields one (field name, value) pair per field, and it has the one field
QueryResponse(points) == << <<"points", points>> >>

\* str(x)
PyStr(x) == IF x = NoneVal THEN "None" ELSE x

\* _format_results that reports the numeric point id
qdrant_format_results_point_id(results) ==
    IF \E i \in DOMAIN results : Len(results[i][2]) = 0
    THEN [raised |-> TRUE, list |-> <<>>]
    ELSE [raised |-> FALSE,
          list |-> [i \in DOMAIN results |->
                      LET r == results[i][2][1]
                      IN  [id |-> ToString(r.id),
                           document |-> r.payload.document,
                           metadata |-> r.payload.metadata,
                           score |-> r.score,
                           distance |-> 1 - r.score]]]

\* QdrantManager._format_results: for each `result` of the iteration, the
\* SearchResult of result[1][0]; an empty list there raises IndexError
qdrant_format_results(results) ==
    IF \E i \in DOMAIN results : Len(results[i][2]) = 0
    THEN [raised |-> TRUE, list |-> <<>>]
    ELSE [raised |-> FALSE,
          list |-> [i \in DOMAIN results |->
                      LET r == results[i][2][1]
                      IN  [id |-> PyStr(r.payload.text_id),
                           document |-> r.payload.document,
                           metadata |-> r.payload.metadata,
                           score |-> r.score,
                           distance |-> 1 - r.score]]]

\* ChromaManager._format_results: one SearchResult per returned document
chroma_format_results(points) ==
    [i \in DOMAIN points |->
        [id |-> points[i].id,
         document |-> points[i].payload.document,
         metadata |-> points[i].payload.metadata,
         score |-> 2 - points[i].score,
         distance |-> 2 - points[i].score]]

\* the query_points request of search
SearchRequest(c, q, limit) ==
    [m |-> "query_points", col |-> c, query |-> q, limit |-> limit, filter |-> NoFilter]

\* the query_points request of filtered_search
FilteredRequest(c, q, flt, limit) ==
    [m |-> "query_points", col |-> c, query |-> q, limit |-> DefaultLimit, filter |-> flt]

\* a query whose backend error is not caught
QdrantQueryOutcome_uncaught(base, req, bfail) ==
    LET failed == bfail \/ ~Exists(req.col)
        fmt == qdrant_format_results(
                   QueryResponse(QueryPoints(req.col, req.query, req.filter, req.limit)))
    IN  [base EXCEPT
            !.bcalls = <<req>>,
            !.bfailed = failed,
            !.raised = IF failed THEN "UnexpectedResponse" ELSE "none",
            !.rlist = IF failed \/ fmt.raised THEN <<>> ELSE fmt.list]

\* what a query_points request ends in: the formatted list, or [] when the
\* server or the formatting raised
QdrantQueryOutcome(base, req, bfail) ==
    LET failed == bfail \/ ~Exists(req.col)
        fmt == qdrant_format_results(
                   QueryResponse(QueryPoints(req.col, req.query, req.filter, req.limit)))
    IN  [base EXCEPT
            !.bcalls = <<req>>,
            !.bfailed = failed,
            !.rlist = IF failed \/ fmt.raised THEN <<>> ELSE fmt.list]

(* ------------------------------- search ------------------------------- *)

QdrantSearch(c, qt, qe, limit, bfail, efail) ==
    LET base == [Blank("search") EXCEPT
                    !.col = c, !.query = qt, !.embedding = qe, !.limit = limit]
    IN  IF ~is_connected THEN base
        ELSE IF qe = NoVec /\ qt # NoneVal THEN
            IF efail THEN [base EXCEPT !.ecalls = 1, !.efailed = TRUE]
            ELSE QdrantQueryOutcome([base EXCEPT !.ecalls = 1],
                                     SearchRequest(c, EmbedOne(qt), limit), bfail # 0)
        ELSE IF qe = NoVec THEN base
        ELSE QdrantQueryOutcome(base, SearchRequest(c, qe, limit), bfail # 0)

ChromaSearch(c, qt, qe, limit, bfail) ==
    LET base == [Blank("search") EXCEPT
                    !.col = c, !.query = qt, !.embedding = qe, !.limit = limit]
        getc == [m |-> "get_collection", col |-> c]
        q == IF qe # NoVec THEN qe ELSE EmbedOne(qt)
        req == [m |-> "query", col |-> c, query |-> q, n_results |-> limit,
                by_text |-> (qe = NoVec)]
        failed == bfail = 2 \/ limit <= 0
    IN  IF ~is_connected THEN base
        ELSE IF bfail = 1 \/ ~Exists(c)
            THEN [base EXCEPT !.bcalls = <<getc>>, !.bfailed = TRUE]
        ELSE IF qe = NoVec /\ qt = NoneVal
            THEN [base EXCEPT !.bcalls = <<getc>>]
        ELSE [base EXCEPT
                 !.bcalls = <<getc, req>>,
                 !.bfailed = failed,
                 !.rlist = IF failed THEN <<>>
                           ELSE chroma_format_results(QueryPoints(c, q, NoFilter, limit))]

SearchOutcome(c, qt, qe, limit, bfail, efail) ==
    IF kind = "qdrant" THEN QdrantSearch(c, qt, qe, limit, bfail, efail)
                       ELSE ChromaSearch(c, qt, qe, limit, bfail)

search(c, qt, qe, limit, bfail, efail) ==
    /\ last' = SearchOutcome(c, qt, qe, limit, bfail, efail)
    /\ UNCHANGED <<outsideManager, kind, hasEmbedder, is_connected, client, store>>

Search ==
    \E c \in Collections, qt \in QueryTexts, qe \in QueryEmbeddings,
       limit \in Limits,
       bfail \in BackendFailures(IF kind = "qdrant" THEN 1 ELSE 2) :
        \E efail \in EmbedderFailures(is_connected /\ kind = "qdrant"
                                       /\ qe = NoVec /\ qt # NoneVal) :
            search(c, qt, qe, limit, bfail, efail)

\* VectorDBManager.search_by_text: the embedder is asked before search is
\* called, outside any try; without an embedder the text goes to search
SearchByTextOutcome(c, query, limit, bfail, efail) ==
    LET base == [Blank("search_by_text") EXCEPT
                    !.col = c, !.query = query, !.limit = limit]
    IN  IF hasEmbedder THEN
            IF efail THEN [base EXCEPT !.ecalls = 1, !.efailed = TRUE,
                                       !.raised = "EmbeddingError"]
            ELSE LET inner == SearchOutcome(c, NoneVal, EmbedOne(query), limit,
                                            bfail, FALSE)
                 IN  [inner EXCEPT !.op = "search_by_text", !.query = query,
                                   !.embedding = NoVec, !.ecalls = 1 + inner.ecalls]
        ELSE LET inner == SearchOutcome(c, query, NoVec, limit, bfail, efail)
             IN  [inner EXCEPT !.op = "search_by_text"]

search_by_text(c, query, limit, bfail, efail) ==
    /\ last' = SearchByTextOutcome(c, query, limit, bfail, efail)
    /\ UNCHANGED <<outsideManager, kind, hasEmbedder, is_connected, client, store>>

SearchByText ==
    \E c \in Collections, query \in QueryTexts \ {NoneVal}, limit \in Limits,
       bfail \in BackendFailures(IF kind = "qdrant" THEN 1 ELSE 2),
       efail \in EmbedderFailures(hasEmbedder) :
        search_by_text(c, query, limit, bfail, efail)

(* --------------------------- filtered_search -------------------------- *)

\* the `filters` arguments of filtered_search: mappings, and one value that is
\* not a mapping
SearchFilterDicts ==
    { <<>>,
      << [name |-> "level",
          config |-> [isDict |-> TRUE, hasMust |-> TRUE, must |-> TRUE,
                      hasValues |-> TRUE,
                      values |-> ListOf(<<PyStrVal("SENIOR")>>)]] >>,
      << [name |-> "languages",
          config |-> [isDict |-> TRUE, hasMust |-> TRUE, must |-> FALSE,
                      hasValues |-> TRUE,
                      values |-> ListOf(<<PyStrVal("german"), PyStrVal("english")>>)]] >>,
      << [name |-> "level",
          config |-> [isDict |-> TRUE, hasMust |-> TRUE, must |-> TRUE,
                      hasValues |-> TRUE, values |-> ListOf(<<>>)]] >> }

SearchFilters ==
    {[isDict |-> TRUE, items |-> f] : f \in SearchFilterDicts}
        \cup {[isDict |-> FALSE, items |-> <<>>]}

\* filtered_search without the isinstance(filters, dict) test
QdrantFilteredSearch_any_filters(c, query, filters, limit, bfail, efail) ==
    LET base == [Blank("filtered_search") EXCEPT
                    !.col = c, !.query = query, !.limit = limit,
                    !.filters = filters.items, !.filtersIsDict = filters.isDict]
    IN  IF ~is_connected THEN base
        ELSE IF query = NoneVal \/ query = "" THEN base
        ELSE IF efail THEN [base EXCEPT !.ecalls = 1, !.efailed = TRUE]
        ELSE QdrantQueryOutcome(
                 [base EXCEPT !.ecalls = 1],
                 FilteredRequest(c, get_embeddings(<<query>>)[1],
                                 build_filter_from_format(filters.items), limit),
                 bfail)

\* QdrantManager.filtered_search
QdrantFilteredSearch(c, query, filters, limit, bfail, efail) ==
    LET base == [Blank("filtered_search") EXCEPT
                    !.col = c, !.query = query, !.limit = limit,
                    !.filters = filters.items, !.filtersIsDict = filters.isDict]
    IN  IF ~is_connected THEN base
        ELSE IF query = NoneVal \/ query = "" \/ ~filters.isDict THEN base
        ELSE IF efail THEN [base EXCEPT !.ecalls = 1, !.efailed = TRUE]
        ELSE QdrantQueryOutcome(
                 [base EXCEPT !.ecalls = 1],
                 FilteredRequest(c, get_embeddings(<<query>>)[1],
                                 build_filter_from_format(filters.items), limit),
                 bfail)

\* filtered_search is a method of QdrantManager alone: neither ChromaManager
\* nor the abstract VectorDBManager defines it
filtered_search(c, query, filters, limit, bfail, efail) ==
    /\ kind = "qdrant"
    /\ last' = QdrantFilteredSearch(c, query, filters, limit, bfail, efail)
    /\ UNCHANGED <<outsideManager, kind, hasEmbedder, is_connected, client, store>>

FilteredSearch ==
    \E c \in Collections, query \in QueryTexts, filters \in SearchFilters,
       limit \in Limits, bfail \in BackendFailures(1),
       efail \in EmbedderFailures(is_connected) :
        filtered_search(c, query, filters, limit, bfail # 0, efail)

(* ------------------------ recreate_collection ------------------------- *)

\* no recreate_collection call is in progress and none has returned
RecreateIdle ==
    rc = [pc |-> "idle", col |-> "", found |-> FALSE,
          deleted |-> FALSE, created |-> FALSE, result |-> NoneVal]

\* QdrantManager.check_collection: false when not connected; list_collections
\* answers [] when the backend raises
check_collection(c, bfail) == is_connected /\ ~bfail /\ Exists(c)

\* recreate_collection, first step: check_collection decides the branch
RecreateCheck(c, bfail) ==
    /\ kind = "qdrant"
    /\ rc.pc \in {"idle", "returned"}
    /\ rc' = [pc |-> IF check_collection(c, bfail) THEN "delete" ELSE "create",
              col |-> c, found |-> check_collection(c, bfail),
              deleted |-> FALSE, created |-> FALSE, result |-> NoneVal]
    /\ UNCHANGED <<managerVars, tr, ingestVars, chunkerVars, nz>>

\* recreate_collection, the delete_collection of the else branch
RecreateDelete(bfail) ==
    /\ rc.pc = "delete"
    /\ rc' = [rc EXCEPT !.pc = "create", !.deleted = is_connected /\ ~bfail]
    /\ store' = IF is_connected /\ ~bfail
                THEN [store EXCEPT ![rc.col] = Absent] ELSE store
    /\ UNCHANGED <<kind, hasEmbedder, is_connected, client, last,
                   tr, ingestVars, chunkerVars, nz>>

\* recreate_collection, the create_collection that ends either branch; the
\* method then returns None
RecreateCreate(bfail) ==
    LET ok == is_connected /\ ~bfail /\ ~Exists(rc.col)
    IN  /\ rc.pc = "create"
        /\ rc' = [rc EXCEPT !.pc = "returned", !.created = ok,
                            !.result = NoneVal]
        /\ store' = IF ok THEN [store EXCEPT ![rc.col] = Empty] ELSE store
        /\ UNCHANGED <<kind, hasEmbedder, is_connected, client, last,
                       tr, ingestVars, chunkerVars, nz>>

RecreateCollection ==
    \/ \E c \in Collections, bfail \in BackendFailures(1) : RecreateCheck(c, bfail # 0)
    \/ \E bfail \in BackendFailures(1) : RecreateDelete(bfail # 0)
    \/ \E bfail \in BackendFailures(1) : RecreateCreate(bfail # 0)

(* ------------------------------ strings ------------------------------- *)

\* A str that the chunker takes apart is kept as the sequence of its words
\* and of the single spaces between and around them.
Space == " "

\* len(s)
RECURSIVE len(_)
len(s) == IF s = <<>> THEN 0 ELSE Len(s[1]) + len(Tail(s))

\* s.split()
split(s) == SelectSeq(s, LAMBDA t : t # Space)

\* " ".join(words)
RECURSIVE join(_)
join(words) ==
    IF Len(words) <= 1 THEN words ELSE <<words[1], Space>> \o join(Tail(words))

\* the str as one value
RECURSIVE text_of(_)
text_of(s) == IF s = <<>> THEN "" ELSE s[1] \o text_of(Tail(s))

\* words[k:] for any integer k
slice_from(words, k) ==
    LET n == Len(words)
        start == IF k < 0 THEN (IF n + k < 0 THEN 0 ELSE n + k)
                 ELSE (IF k > n THEN n ELSE k)
    IN  SubSeq(words, start + 1, n)

\* words[i:j] for 0 <= i <= j
slice(words, i, j) == SubSeq(words, i + 1, IF j > Len(words) THEN Len(words) ELSE j)

(* ------------------------------ chunker ------------------------------- *)

\* re.split(r'[.!?]+', text) followed by strip and the non-empty test: a text
\* is given as the sequence of its terminator-separated segments, each the
\* sequence of its words; blank segments are dropped
sentences_of(text) ==
    LET kept == SelectSeq(text, LAMBDA seg : seg # <<>>)
    IN  [i \in 1..Len(kept) |-> join(kept[i])]

\* a loop that appends nothing to the buffer
Terminated_nothing(sentence) == <<>>

\* sentence + ". "
Terminated(sentence) ==
    [sentence EXCEPT ![Len(sentence)] = @ \o "."] \o <<Space>>

\* a fallback that keeps the first group of words only
windows_first_only(words, i, n) ==
    IF i >= Len(words) THEN <<>> ELSE <<join(slice(words, i, i + n))>>

\* the range(0, len(words), n) loop of _split_long_sentence
RECURSIVE windows(_, _, _)
windows(words, i, n) ==
    IF i >= Len(words) THEN <<>>
    ELSE <<join(slice(words, i, i + n))>> \o windows(words, i + n, n)

\* SimpleChunker._split_long_sentence: range() raises ValueError for step 0
split_long_sentence(sentence, chunk_size) ==
    LET n == chunk_size \div 10
    IN  IF n = 0 THEN [raised |-> "ValueError", texts |-> <<>>]
        ELSE [raised |-> "none",
              texts |-> IF n < 0 THEN <<>> ELSE windows(split(sentence), 0, n)]

\* the seed of the next buffer: current_chunk.split()[-self.overlap//10:]
\* joined by spaces, plus one space (unary minus binds before //)
overlap_seed(current_chunk, overlap) ==
    join(slice_from(split(current_chunk), (0 - overlap) \div 10)) \o <<Space>>

\* what the loop has done so far, kept beside its result: for every text
\* emitted the number of seed words it starts with, the same number for the
\* buffer being filled, and the flushes, fallbacks and appends in order
NoHistory == [seeded |-> <<>>, cur |-> 0, log |-> <<>>]

\* the loop over the sentences and the flush that follows it
RECURSIVE sentence_loop(_, _, _, _, _, _)
sentence_loop(sentences, texts, current_chunk, chunk_size, overlap, hist) ==
    IF sentences = <<>> THEN
        [raised |-> "none",
         texts |-> IF current_chunk # <<>> THEN Append(texts, current_chunk)
                   ELSE texts,
         seeded |-> IF current_chunk # <<>> THEN Append(hist.seeded, hist.cur)
                    ELSE hist.seeded,
         log |-> hist.log]
    ELSE
        LET sentence == Head(sentences)
            rest == Tail(sentences)
        IN  IF len(current_chunk) + len(sentence) > chunk_size THEN
                IF current_chunk # <<>> THEN
                    LET seed == overlap_seed(current_chunk, overlap)
                    IN  sentence_loop(rest, Append(texts, current_chunk),
                                      seed \o Terminated(sentence),
                                      chunk_size, overlap,
                                      [seeded |-> Append(hist.seeded, hist.cur),
                                       cur |-> Len(split(seed)),
                                       log |-> hist.log \o
                                           <<[ev |-> "flush",
                                              buffer |-> current_chunk,
                                              seed |-> seed],
                                             [ev |-> "append",
                                              sentence |-> sentence]>>])
                ELSE
                    LET long == split_long_sentence(sentence, chunk_size)
                    IN  IF long.raised # "none"
                        THEN [raised |-> long.raised, texts |-> <<>>,
                              seeded |-> <<>>, log |-> hist.log]
                        ELSE sentence_loop(rest, texts \o long.texts,
                                           current_chunk, chunk_size, overlap,
                                           [hist EXCEPT
                                              !.seeded = @ \o
                                                  [i \in DOMAIN long.texts |-> 0],
                                              !.log = Append(@,
                                                  [ev |-> "fallback",
                                                   sentence |-> sentence])])
            ELSE
                sentence_loop(rest, texts, current_chunk \o Terminated(sentence),
                              chunk_size, overlap,
                              [hist EXCEPT
                                 !.log = Append(@, [ev |-> "append",
                                                    sentence |-> sentence])])

\* Chunk.from_dict with the caller's metadata written over the two counters
from_dict_meta_last(data, meta) ==
    [text |-> data.text,
     id |-> data.id,
     metadata |-> [k \in DOMAIN meta \cup {"chunk_number", "chunks_overall"} |->
                      IF k \in DOMAIN meta THEN meta[k]
                      ELSE IF k = "chunk_number" THEN data.chunk_number
                      ELSE data.chunks_overall]]

\* Chunk.from_dict: the caller's metadata with the two counters written over it
from_dict(data, meta) ==
    [text |-> data.text,
     id |-> data.id,
     metadata |-> [k \in DOMAIN meta \cup {"chunk_number", "chunks_overall"} |->
                      IF k = "chunk_number" THEN data.chunk_number
                      ELSE IF k = "chunks_overall" THEN data.chunks_overall
                      ELSE meta[k]]]

\* str(uuid.uuid4()): the n-th value drawn in the process, each one new
uuid4(n) == "uuid" \o ToString(n)

\* meta.get('CV_id', uuid.uuid4()): the default is evaluated at every call
source_id(meta, n) == IF "CV_id" \in DOMAIN meta THEN meta["CV_id"] ELSE uuid4(n)

\* SimpleChunker.chunk_by_sentences; drawn is the number of uuid4 values drawn
\* before the call
chunk_by_sentences(text, meta, chunk_size, overlap, drawn) ==
    LET run == sentence_loop(sentences_of(text), <<>>, <<>>, chunk_size, overlap,
                             NoHistory)
        texts == run.texts
    IN  [raised |-> run.raised,
         texts |-> texts,
         seeded |-> run.seeded,
         log |-> run.log,
         chunks |-> [i \in 1..Len(texts) |->
                        from_dict([text |-> text_of(texts[i]),
                                   id |-> source_id(meta, drawn + i) \o "_chunk#"
                                              \o ToString(i),
                                   chunk_number |-> i,
                                   chunks_overall |-> Len(texts)],
                                  meta)],
         drawn |-> drawn + Len(texts)]

\* list(range(0, stop, step)) for stop >= 0: nothing for a negative step;
\* step 0 is the ValueError the callers model themselves
range_from_zero(stop, step) ==
    IF step <= 0 THEN <<>>
    ELSE [k \in 1..((stop + step - 1) \div step) |-> (k - 1) * step]

\* the dict the word and fixed-size strategies return
raw_result(texts) ==
    [raised |-> "none",
     texts |-> texts,
     chunk_ids |-> [k \in DOMAIN texts |-> k - 1],
     texts_all |-> Len(texts)]

\* SimpleChunker.chunk_by_words
chunk_by_words(text, words_per_chunk, overlap) ==
    LET words == split(text)
        step == words_per_chunk - overlap \div 5
        starts == range_from_zero(Len(words), step)
    IN  IF step = 0 THEN [raised |-> "ValueError", texts |-> <<>>,
                          chunk_ids |-> <<>>, texts_all |-> 0]
        ELSE raw_result([k \in DOMAIN starts |->
                            join(slice(words, starts[k],
                                       starts[k] + words_per_chunk))])

\* SimpleChunker.chunk_by_fixed_size; the str is the sequence of its characters
chunk_by_fixed_size(text, chunk_size, overlap) ==
    LET step == chunk_size - overlap
        starts == range_from_zero(Len(text), step)
    IN  IF step = 0 THEN [raised |-> "ValueError", texts |-> <<>>,
                          chunk_ids |-> <<>>, texts_all |-> 0]
        ELSE raw_result([k \in DOMAIN starts |->
                            slice(text, starts[k], starts[k] + chunk_size)])

\* the calls of the chunker that are examined
Segments == {<<>>, <<"ab">>, <<"cd", "efg">>, <<"hijkl", "mn", "op">>}

Texts == SeqsUpTo(Segments, MaxSentences)

ChunkSizes == {5, 10, 20}

Overlaps == {0, 5, 20}

Metas ==
    {[CV_id |-> "Ann Lee_5", candidate_name |-> "Ann Lee"],
     [candidate_name |-> "Ann Lee"],
     [CV_id |-> "", project_name |-> "shop", chunk_number |-> 7,
      chunks_overall |-> 1]}

\* the texts given to chunk_by_words: up to MaxWords words, single-spaced
WordTexts == {join(ws) : ws \in SeqsUpTo({"ab", "cd"}, MaxWords)}

\* words_per_chunk: a small window and the default of the signature
DefaultWordsPerChunk == 200

WordsPerChunk == {2, DefaultWordsPerChunk}

\* the overlaps around the one that makes the default stride 200 - overlap//5
\* zero, with a chunk_size above and below them
WordOverlaps == {0, 5, 995, 1000, 1005}

WordChunkSizes == {10, 2000}

\* the texts given to chunk_by_fixed_size, character by character
CharTexts == SeqsUpTo({"a", "b"}, MaxChars)

FixedChunkSizes == {1, 2, 3}

FixedOverlaps == {0, 1, 2, 3}

SentenceCalls ==
    {[op |-> "chunk_by_sentences", pc |-> "called", text |-> t, meta |-> m,
      chunk_size |-> cs, overlap |-> ov, raised |-> "none",
      chunks |-> <<>>, texts |-> <<>>, seeded |-> <<>>, log |-> <<>>] :
         t \in Texts, m \in Metas, cs \in ChunkSizes, ov \in Overlaps}

WordCalls ==
    {[op |-> "chunk_by_words", pc |-> "called", text |-> t,
      words_per_chunk |-> w, chunk_size |-> cs, overlap |-> ov,
      raised |-> "none", texts |-> <<>>, chunk_ids |-> <<>>, texts_all |-> 0] :
         t \in WordTexts, w \in WordsPerChunk, cs \in WordChunkSizes,
         ov \in WordOverlaps}

FixedSizeCalls ==
    {[op |-> "chunk_by_fixed_size", pc |-> "called", text |-> t,
      chunk_size |-> cs, overlap |-> ov,
      raised |-> "none", texts |-> <<>>, chunk_ids |-> <<>>, texts_all |-> 0] :
         t \in CharTexts, cs \in FixedChunkSizes, ov \in FixedOverlaps}

ChunkerInit == ck \in SentenceCalls \cup WordCalls \cup FixedSizeCalls

\* one call of chunk_by_sentences on a new SimpleChunker(chunk_size, overlap)
ChunkBySentences ==
    /\ ck.op = "chunk_by_sentences"
    /\ ck.pc = "called"
    /\ LET out == chunk_by_sentences(ck.text, ck.meta, ck.chunk_size, ck.overlap, 0)
       IN  ck' = [ck EXCEPT !.pc = IF out.raised = "none" THEN "returned"
                                   ELSE "raised",
                            !.raised = out.raised,
                            !.chunks = out.chunks,
                            !.texts = out.texts,
                            !.seeded = out.seeded,
                            !.log = out.log]
    /\ UNCHANGED <<managerVars, tr, rc, ingestVars, nz>>

\* the end of a call that returns the dict of the raw strategies
RawReturn(out) ==
    ck' = [ck EXCEPT !.pc = IF out.raised = "none" THEN "returned" ELSE "raised",
                     !.raised = out.raised,
                     !.texts = out.texts,
                     !.chunk_ids = out.chunk_ids,
                     !.texts_all = out.texts_all]

\* one call of chunk_by_words on a new SimpleChunker(chunk_size, overlap)
ChunkByWords ==
    /\ ck.op = "chunk_by_words"
    /\ ck.pc = "called"
    /\ RawReturn(chunk_by_words(ck.text, ck.words_per_chunk, ck.overlap))
    /\ UNCHANGED <<managerVars, tr, rc, ingestVars, nz>>

\* one call of chunk_by_fixed_size on a new SimpleChunker(chunk_size, overlap)
ChunkByFixedSize ==
    /\ ck.op = "chunk_by_fixed_size"
    /\ ck.pc = "called"
    /\ RawReturn(chunk_by_fixed_size(ck.text, ck.chunk_size, ck.overlap))
    /\ UNCHANGED <<managerVars, tr, rc, ingestVars, nz>>

(* --------------------------- text normalizer -------------------------- *)

\* TextNormalizer.normalize on the strings the documents below are made of:
\* lower case, runs of whitespace collapsed, ends trimmed
normalize(text) ==
    CASE text = "Education" -> "education"
      [] text = "BSU  Minsk" -> "bsu minsk"
      [] text = "English (B2)" -> "english (b2)"
      [] text = "FinTech" -> "fintech"
      [] text = " Builds ML systems " -> "builds ml systems"
      [] text = "Shop" -> "shop"
      [] text = "Web store" -> "web store"
      [] text = "Bank" -> "bank"
      [] text = "Dev/Lead" -> "dev/lead"
      [] text = "Project roles" -> "project roles"
      [] text = "Period" -> "period"
      [] text = "ML Engineer / Data Scientist" -> "ml engineer / data scientist"
      [] text = "ML ENGINEER" -> "ml engineer"
      [] text = "ml engineer " -> "ml engineer"
      [] text = " data scientist" -> "data scientist"
      [] text = " " -> ""
      [] OTHER -> text

\* p.text.strip()
strip(text) == IF text = " " THEN "" ELSE text

\* normalize applied to a text of several lines: its words joined by spaces
RECURSIVE spaced(_)
spaced(parts) ==
    IF parts = <<>> THEN ""
    ELSE IF Len(parts) = 1 THEN parts[1]
    ELSE parts[1] \o " " \o spaced(Tail(parts))

normalize_text(lines) ==
    spaced(SelectSeq([i \in DOMAIN lines |-> normalize(lines[i])],
                     LAMBDA l : l # ""))

\* lines.index(x), 0-based; -1 stands for the ValueError of a missing value
index_of(lines, x) ==
    IF \E i \in DOMAIN lines : lines[i] = x
    THEN (CHOOSE i \in DOMAIN lines :
              lines[i] = x /\ \A j \in 1..(i - 1) : lines[j] # x) - 1
    ELSE -1

\* TextNormalizer.extract_between_markers
extract_between_markers(lines, start_marker, end_marker) ==
    IF index_of(lines, start_marker) = -1 THEN <<>>
    ELSE LET start_idx == index_of(lines, start_marker) + 1
             end_idx == index_of(lines, end_marker)
             items == IF end_idx = -1 THEN SubSeq(lines, start_idx + 1, Len(lines))
                      ELSE SubSeq(lines, start_idx + 1, end_idx)
         IN  [i \in DOMAIN items |-> normalize(items[i])]

\* TextNormalizer.extract_position_level on the position lines of the documents
extract_position_level(text) ==
    IF text = "SENIOR ML ENGINEER"
    THEN [level |-> "SENIOR", clean |-> normalize("ML ENGINEER")]
    ELSE [level |-> NoneVal, clean |-> normalize(text)]

\* str.split('/') on the role strings of the documents
split_slash(text) ==
    CASE text = "dev/lead" -> <<"dev", "lead">>
      [] text = "ml engineer / data scientist" -> <<"ml engineer ", " data scientist">>
      [] OTHER -> <<text>>

\* TextNormalizer.clean_language_entry on the language lines of the documents
clean_language_entry(text) ==
    IF text = "english (b2)" THEN <<"english b2", "b2">>
    ELSE <<normalize(text), NoneVal>>

(* ---------------------- language entries, by character ---------------- *)

\* For clean_language_entry taken on its own a str is the sequence of its
\* characters, drawn from an alphabet with one level letter in both cases,
\* other letters, one digit, punctuation, the dash and the space.
lower_char(ch) == CASE ch = "B" -> "b" [] ch = "E" -> "e" [] OTHER -> ch

upper_char(ch) ==
    CASE ch = "b" -> "B" [] ch = "e" -> "E" [] ch = "n" -> "N" [] OTHER -> ch

IsDigit(ch) == ch = "2"

IsLetter(ch) == ch \in {"B", "E", "b", "e", "n"}

\* \w and \s
IsWordChar(ch) == IsLetter(ch) \/ IsDigit(ch)

IsSpace(ch) == ch = " "

\* [ABCabc] under re.IGNORECASE
IsLevelLetter(ch) == ch \in {"B", "b"}

\* str.strip()
strip_chars(s) ==
    LET inked == {i \in DOMAIN s : ~IsSpace(s[i])}
    IN  IF inked = {} THEN <<>>
        ELSE SubSeq(s, CHOOSE i \in inked : \A j \in inked : i <= j,
                       CHOOSE i \in inked : \A j \in inked : i >= j)

\* re.sub(r'\s+', ' ', s)
RECURSIVE squeeze(_)
squeeze(s) ==
    IF Len(s) <= 1 THEN s
    ELSE IF IsSpace(s[1]) /\ IsSpace(s[2]) THEN squeeze(Tail(s))
    ELSE <<s[1]>> \o squeeze(Tail(s))

\* TextNormalizer.normalize, character by character
normalize_chars(s) == strip_chars(squeeze([i \in DOMAIN s |-> lower_char(s[i])]))

\* the length of the run of digits that starts at position q
RECURSIVE digit_run(_, _)
digit_run(s, q) ==
    IF q > Len(s) \/ ~IsDigit(s[q]) THEN 0 ELSE 1 + digit_run(s, q + 1)

\* (\d{1,2})\b at position q: one or two digits with a word boundary behind
\* them; a longer run has no boundary after its first or second digit
digits_match(s, q) ==
    /\ q <= Len(s)
    /\ digit_run(s, q) \in {1, 2}
    /\ LET e == q + digit_run(s, q) - 1
       IN  e = Len(s) \/ ~IsWordChar(s[e + 1])

\* [\-\s]* from position j: the first position that holds neither
RECURSIVE skip_separators(_, _)
skip_separators(s, j) ==
    IF j <= Len(s) /\ (s[j] = "-" \/ IsSpace(s[j])) THEN skip_separators(s, j + 1)
    ELSE j

\* re.search(level_pattern, text, re.IGNORECASE): the position of the
\* leftmost match, 0 when there is none
level_search(s) ==
    LET hits == {i \in DOMAIN s :
                    IsLevelLetter(s[i]) /\ digits_match(s, skip_separators(s, i + 1))}
    IN  IF hits = {} THEN 0 ELSE CHOOSE i \in hits : \A j \in hits : i <= j

\* the first digit at or after position p, 0 when there is none
first_digit(s, p) ==
    LET ds == {q \in p..Len(s) : IsDigit(s[q])}
    IN  IF ds = {} THEN 0 ELSE CHOOSE q \in ds : \A r \in ds : q <= r

\* re.search(fallback_pattern, text): the start of the leftmost match
fallback_search(s) ==
    LET hits == {p \in DOMAIN s :
                    first_digit(s, p) # 0 /\ digits_match(s, first_digit(s, p))}
    IN  IF hits = {} THEN 0 ELSE CHOOSE p \in hits : \A r \in hits : p <= r

\* re.sub(r'[^\w\s]+$', '', s)
RECURSIVE rstrip_punctuation(_)
rstrip_punctuation(s) ==
    IF s # <<>> /\ ~IsWordChar(s[Len(s)]) /\ ~IsSpace(s[Len(s)])
    THEN rstrip_punctuation(SubSeq(s, 1, Len(s) - 1)) ELSE s

\* re.sub(r'[\-\s]+$', '', s)
RECURSIVE rstrip_dashes(_)
rstrip_dashes(s) ==
    IF s # <<>> /\ (s[Len(s)] = "-" \/ IsSpace(s[Len(s)]))
    THEN rstrip_dashes(SubSeq(s, 1, Len(s) - 1)) ELSE s

\* the first branch of clean_language_entry, the match at position i
level_entry(s, i) ==
    LET q == skip_separators(s, i + 1)
        level_full == <<s[i]>> \o SubSeq(s, q, q + digit_run(s, q) - 1)
        text_before == strip_chars(SubSeq(s, 1, i - 1))
        spaced_out == [k \in DOMAIN text_before |->
                          IF IsWordChar(text_before[k]) \/ IsSpace(text_before[k])
                          THEN text_before[k] ELSE " "]
        text_before_cleaned == strip_chars(squeeze(spaced_out))
    IN  [text |-> text_before_cleaned \o <<" ">> \o level_full,
         level |-> level_full]

\* TextNormalizer.clean_language_entry, character by character
clean_language_chars(s) ==
    IF level_search(s) # 0 THEN level_entry(s, level_search(s))
    ELSE IF fallback_search(s) # 0 THEN
        LET p == fallback_search(s)
            q == first_digit(s, p)
            level_digit == SubSeq(s, q, q + digit_run(s, q) - 1)
            text_before ==
                strip_chars(rstrip_dashes(rstrip_punctuation(
                    strip_chars(SubSeq(s, p, q - 1)))))
        IN  IF text_before # <<>>
            THEN [text |-> text_before \o <<" ">> \o level_digit,
                  level |-> level_digit]
            ELSE [text |-> normalize_chars(s), level |-> NoneVal]
    ELSE [text |-> normalize_chars(s), level |-> NoneVal]

\* the entries examined: every str of up to MaxEntry characters, and longer
\* ones of the shapes the documents use
EntryAlphabet == {"n", "B", "b", "2", "(", " "}

EntryExamples ==
    {<<"E", "n", " ", "(", "B", "2", ")">>,
     <<"e", "n", " ", "(", "b", "2", ")">>,
     <<"E", "n", " ", "B", "-", "2">>,
     <<"E", "n", " ", " ", "2", "2">>,
     <<"n", "n", " ", "E", "n">>}

Entries == SeqsUpTo(EntryAlphabet, MaxEntry) \cup EntryExamples

\* the about lines examined: the two markers and one item line
MarkerLines == {"Education", "Language proficiency", "BSU  Minsk"}

NormalizerInit ==
    nz \in {[op |-> "clean_language_entry", pc |-> "called", text |-> e,
             returned |-> NoneVal] : e \in Entries}
           \cup
           {[op |-> "extract_between_markers", pc |-> "called", lines |-> ls,
             start_marker |-> "Education", end_marker |-> "Language proficiency",
             returned |-> NoneVal] : ls \in SeqsUpTo(MarkerLines, MaxLines)}

\* one call of clean_language_entry
CleanLanguageEntry ==
    /\ nz.op = "clean_language_entry"
    /\ nz.pc = "called"
    /\ nz' = [nz EXCEPT !.pc = "returned",
                        !.returned = clean_language_chars(nz.text)]
    /\ UNCHANGED <<managerVars, tr, rc, ingestVars, chunkerVars>>

\* one call of extract_between_markers
ExtractBetweenMarkers ==
    /\ nz.op = "extract_between_markers"
    /\ nz.pc = "called"
    /\ nz' = [nz EXCEPT !.pc = "returned",
                        !.returned = extract_between_markers(
                                         nz.lines, nz.start_marker, nz.end_marker)]
    /\ UNCHANGED <<managerVars, tr, rc, ingestVars, chunkerVars>>

(* ------------------------------ documents ----------------------------- *)

\* A .docx file: whether the path exists, ends in .docx and opens as a
\* document; its paragraphs; its tables.  A table is the sequence of its rows,
\* a row the sequence of its cells, a cell text the sequence of its lines.
AboutTable ==
    << << <<"Education", "BSU  Minsk", "Language proficiency", "English (B2)",
            "Domains", "FinTech">>,
          <<"About", " Builds ML systems ">> >> >>

\* the first table with the first cell alone
AboutTableOneCell == << <<AboutTable[1][1]>> >>

HeaderRow == << <<"Project">>, <<"Description">> >>

ShopRow ==
    << <<"Shop", "Web store">>, <<"Project roles", "Dev/Lead", "Period", "2020">> >>

\* two rows of two cells and a row of one cell
DataRows == {ShopRow, << <<"Bank">>, <<"Core banking">> >>, << <<"Merged cell">> >>}

ProjectTables == {<<HeaderRow>> \o rows : rows \in SeqsUpTo(DataRows, MaxRows)}

WellFormedParagraphs == <<"Ann Lee", "SENIOR ML ENGINEER", "Summary">>

ParagraphLists ==
    {WellFormedParagraphs,
     <<"", "Ann Lee", " ", "ML Engineer / Data Scientist", "Summary">>,
     <<"Bob Roe", "SENIOR ML ENGINEER", "Summary">>,
     <<"Ann Lee", " ", "SENIOR ML ENGINEER">>,
     <<>>}

TableLists ==
    {<<>>, <<AboutTable>>, <<AboutTableOneCell>>,
     <<AboutTableOneCell, <<HeaderRow>>>>}
        \cup {<<AboutTable, p>> : p \in ProjectTables}

DocxFile(ps, ts) ==
    [path |-> "cv.docx", exists |-> TRUE, docx |-> TRUE, opens |-> TRUE,
     paragraphs |-> ps, tables |-> ts]

\* the files examined: every paragraph list with two tables and with none,
\* every list of tables under well-formed paragraphs, a missing path, a path
\* that is no .docx, and a file that does not open as a document
Files ==
    {DocxFile(ps, ts) :
         ps \in ParagraphLists,
         ts \in {<<>>, <<AboutTable, <<HeaderRow, ShopRow>>>>}}
        \cup {DocxFile(WellFormedParagraphs, ts) : ts \in TableLists}
        \cup {[DocxFile(<<>>, <<>>) EXCEPT !.exists = FALSE],
              [DocxFile(<<>>, <<>>) EXCEPT !.path = "cv.txt", !.docx = FALSE],
              [DocxFile(<<>>, <<>>) EXCEPT !.opens = FALSE]}

(* ------------------------------- models ------------------------------- *)

\* the fields of the PersonalInfo dataclass
PersonalInfoFields ==
    {"candidate_name", "level", "roles", "education", "languages", "domains",
     "description"}

\* PersonalInfo(**kwargs): the generated __init__ refuses a keyword that is
\* no field and a call without candidate_name
PersonalInfo(kwargs) ==
    IF DOMAIN kwargs \subseteq PersonalInfoFields /\ "candidate_name" \in DOMAIN kwargs
    THEN [raised |-> "none", message |-> "", value |-> kwargs]
    ELSE [raised |-> "TypeError",
          message |-> "PersonalInfo.__init__() got an unexpected keyword argument 'name'",
          value |-> <<>>]

\* Project.metadata
ProjectMetadata(project) ==
    [CV_id |-> project.cv_id, project_name |-> project.project_name,
     candidate_name |-> project.candidate_name,
     description |-> project.description, roles |-> project.roles]

(* ------------------------------- parsers ------------------------------ *)

\* parse_project_row without the test on the number of cells
parse_project_row_any_cells(cells, cv_id, candidate_name) ==
    [raised |-> "none", message |-> "",
     value |-> [project_name |-> normalize(cells[1][1]),
                candidate_name |-> candidate_name,
                description |-> IF Len(cells) < 2 THEN ""
                                ELSE normalize_text(cells[2]),
                roles |-> <<>>,
                cv_id |-> cv_id]]

\* InnoProjectParser.parse_project_row
parse_project_row(cells, cv_id, candidate_name) ==
    IF Len(cells) < 2 THEN
        [raised |-> "ValueError",
         message |-> "Project row must have at least 2 cells, got "
                         \o ToString(Len(cells)),
         value |-> <<>>]
    ELSE
        LET description == cells[2]
            project_name_parts == cells[1]
            project_name == project_name_parts[1]
            summary == IF Len(project_name_parts) < 2 THEN ""
                       ELSE project_name_parts[2]
            roles_line == extract_between_markers(description, "Project roles",
                                                  "Period")
            roles == IF roles_line # <<>> THEN split_slash(roles_line[1]) ELSE <<>>
        IN  [raised |-> "none", message |-> "",
             value |-> [project_name |-> normalize(project_name),
                        candidate_name |-> candidate_name,
                        description |->
                            IF summary # ""
                            THEN normalize_text(<<summary>> \o description)
                            ELSE normalize_text(description),
                        roles |-> [i \in DOMAIN roles |-> normalize(roles[i])],
                        cv_id |-> cv_id]]

\* the loop of _parse_projects over rows[1:]: a row that raises is skipped
RECURSIVE parse_rows(_)
parse_rows(rows) ==
    IF rows = <<>> THEN <<>>
    ELSE LET project == parse_project_row(Head(rows), "", "")
         IN  (IF project.raised = "none" THEN <<project.value>> ELSE <<>>)
                 \o parse_rows(Tail(rows))

\* InnoStandardParser._parse_projects
parse_projects(doc) ==
    IF Len(doc.tables) < 2 THEN <<>>
    ELSE parse_rows(Tail(doc.tables[2]))

\* the non-empty stripped paragraphs
stripped_paragraphs(doc) ==
    SelectSeq([i \in DOMAIN doc.paragraphs |-> strip(doc.paragraphs[i])],
              LAMBDA t : t # "")

\* _parse_personal_info with the table test made first
parse_personal_info_tables_first(doc) ==
    LET paragraphs == stripped_paragraphs(doc)
    IN  IF doc.tables = <<>> THEN
            [raised |-> "ValueError", message |-> "Document has no tables",
             value |-> <<>>]
        ELSE IF Len(paragraphs) < 3 THEN
            [raised |-> "ValueError",
             message |-> "Expected at least 3 paragraphs, got "
                             \o ToString(Len(paragraphs)),
             value |-> <<>>]
        ELSE PersonalInfo([name |-> paragraphs[1]])

\* InnoStandardParser._parse_personal_info
parse_personal_info(doc) ==
    LET paragraphs == stripped_paragraphs(doc)
    IN  IF Len(paragraphs) < 3 THEN
            [raised |-> "ValueError",
             message |-> "Expected at least 3 paragraphs, got "
                             \o ToString(Len(paragraphs)),
             value |-> <<>>]
        ELSE IF doc.tables = <<>> THEN
            [raised |-> "ValueError", message |-> "Document has no tables",
             value |-> <<>>]
        ELSE
            LET name == paragraphs[1]
                position == extract_position_level(paragraphs[2])
                roles == split_slash(position.clean)
                about_cells == doc.tables[1][1]
                about_lines == about_cells[1]
                languages_raw == extract_between_markers(
                                     about_lines, "Language proficiency", "Domains")
                description == IF Len(about_cells) > 1 /\ Len(about_cells[2]) > 1
                               THEN about_cells[2][2] ELSE ""
            IN  PersonalInfo(
                    [name |-> name,
                     level |-> position.level,
                     roles |-> [i \in DOMAIN roles |-> normalize(roles[i])],
                     education |-> extract_between_markers(
                                       about_lines, "Education", "Language proficiency"),
                     languages |-> [i \in DOMAIN languages_raw |->
                                       clean_language_entry(languages_raw[i])[1]],
                     domains |-> extract_between_markers(
                                     about_lines, "Domains", "Certificates"),
                     description |-> normalize(description)])

\* readings of time.time() per second: the clock now counts half seconds
TicksPerSecond == 2

\* int(time.time())
int_time(t) == t \div TicksPerSecond

\* f"{personal_info.name}_{int(time.time())}"
cv_id(name, t) == name \o "_" \o ToString(int_time(t))

\* the ValueError parse raises in its except clause
Wrapped(file, e) ==
    [raised |-> "ValueError", wraps |-> e.raised,
     message |-> "Error parsing DOCX file " \o file.path \o ": " \o e.message,
     value |-> <<>>]

\* InnoStandardParser.parse, called when the clock reads t
parse(file, t) ==
    IF ~file.exists THEN
        [raised |-> "FileNotFoundError", wraps |-> "none",
         message |-> "DOCX file not found: " \o file.path, value |-> <<>>]
    ELSE IF ~file.docx THEN
        [raised |-> "ValueError", wraps |-> "none",
         message |-> "File must be a .docx file: " \o file.path, value |-> <<>>]
    ELSE IF ~file.opens THEN
        Wrapped(file, [raised |-> "PackageNotFoundError",
                       message |-> "Package not found at '" \o file.path \o "'"])
    ELSE
        LET personal_info == parse_personal_info(file)
        IN  IF personal_info.raised # "none" THEN Wrapped(file, personal_info)
            ELSE IF "name" \notin DOMAIN personal_info.value THEN
                Wrapped(file, [raised |-> "AttributeError",
                               message |-> "'PersonalInfo' object has no attribute 'name'"])
            ELSE
                [raised |-> "none", wraps |-> "none", message |-> "",
                 value |-> [personal_info |-> personal_info.value,
                            projects |-> parse_projects(file),
                            cv_id |-> cv_id(personal_info.value.name, t)]]

(* ----------------------------- CVCollection --------------------------- *)

\* the record of a call on the collection or its parser before anything
\* happened in it; name and at describe a parse of a well-formed document,
\* prev_name and prev_at the call before it
IngBlank(op, file) ==
    [op |-> op, file |-> file, name |-> NoneVal, at |-> now,
     prev_name |-> ing.name, prev_at |-> ing.at,
     raised |-> "none", wraps |-> "none", message |-> "",
     returned |-> NoneVal, projects |-> <<>>, cvs_before |-> Len(cvs)]

\* a document of at least 3 non-empty paragraphs and the two tables
WellFormed(file) ==
    /\ file.exists /\ file.docx /\ file.opens
    /\ Len(stripped_paragraphs(file)) >= 3
    /\ Len(file.tables) = 2

\* CVCollection.add_cv_from_file
add_cv_from_file(file) ==
    LET cv == parse(file, now)
        base == [IngBlank("add_cv_from_file", file) EXCEPT
                    !.name = IF WellFormed(file) THEN stripped_paragraphs(file)[1]
                             ELSE NoneVal]
    IN  /\ cvs' = IF cv.raised = "none" THEN Append(cvs, cv.value) ELSE cvs
        /\ ing' = IF cv.raised = "none"
                  THEN [base EXCEPT !.returned = cv.value.cv_id]
                  ELSE [base EXCEPT !.raised = cv.raised, !.wraps = cv.wraps,
                                    !.message = cv.message]
        /\ UNCHANGED <<managerVars, tr, rc, cv_chunks, project_chunks, now, ck, nz>>

AddCvFromFile == \E file \in Files : add_cv_from_file(file)

\* InnoStandardParser._parse_projects on an opened document
ParseProjects ==
    \E file \in Files :
        /\ file.exists /\ file.docx /\ file.opens
        /\ ing' = [IngBlank("_parse_projects", file) EXCEPT
                      !.projects = parse_projects(file)]
        /\ UNCHANGED <<managerVars, tr, rc, cvs, cv_chunks, project_chunks, now, ck, nz>>

\* the clock that time.time() reads moves on
Tick ==
    /\ now < MaxTime
    /\ now' = now + 1
    /\ UNCHANGED <<managerVars, tr, rc, cvs, cv_chunks, project_chunks, ing, ck, nz>>

(* --------------------------- specification ---------------------------- *)

\* nothing has been ingested and nothing chunked
(* ------------------------ CVCollection: chunks ------------------------ *)

\* CV.metadata and CV.text
CvMetadata(cv) ==
    [CV_id |-> cv.cv_id,
     candidate_name |-> cv.personal_info.candidate_name,
     level |-> cv.personal_info.level,
     roles |-> cv.personal_info.roles,
     education |-> cv.personal_info.education,
     languages |-> cv.personal_info.languages,
     domains |-> cv.personal_info.domains,
     description |-> cv.personal_info.description]

CvText(cv) == cv.personal_info.description

\* the inner loop of generate_chunks over the projects of one CV; the lists
\* grow in place, so what was appended before an exception stays
RECURSIVE chunk_projects(_, _, _, _)
chunk_projects(projects, project_acc, chunk_size, overlap) ==
    IF projects = <<>> THEN [raised |-> "none", project_chunks |-> project_acc]
    ELSE LET out == chunk_by_sentences(Head(projects).description,
                                       ProjectMetadata(Head(projects)),
                                       chunk_size, overlap, 0)
         IN  IF out.raised # "none"
             THEN [raised |-> out.raised, project_chunks |-> project_acc]
             ELSE chunk_projects(Tail(projects), project_acc \o out.chunks,
                                 chunk_size, overlap)

\* CVCollection.generate_chunks on the CVs of the list, appending to the two
\* chunk lists; any exception ends the loop and is answered with False
RECURSIVE generate_chunks(_, _, _, _, _)
generate_chunks(list, cv_acc, project_acc, chunk_size, overlap) ==
    IF list = <<>> THEN
        [returned |-> TRUE, cv_chunks |-> cv_acc, project_chunks |-> project_acc]
    ELSE
        LET cv == Head(list)
            out == chunk_by_sentences(CvText(cv), CvMetadata(cv),
                                      chunk_size, overlap, 0)
            pr == chunk_projects(cv.projects, project_acc, chunk_size, overlap)
        IN  IF out.raised # "none" THEN
                [returned |-> FALSE, cv_chunks |-> cv_acc,
                 project_chunks |-> project_acc]
            ELSE IF pr.raised # "none" THEN
                [returned |-> FALSE, cv_chunks |-> cv_acc \o out.chunks,
                 project_chunks |-> pr.project_chunks]
            ELSE generate_chunks(Tail(list), cv_acc \o out.chunks,
                                 pr.project_chunks, chunk_size, overlap)

\* CVCollection.prepare_chunks_qdrant
prepare_chunks_qdrant(cv_acc, project_acc) ==
    [cv |-> [texts |-> [i \in DOMAIN cv_acc |-> cv_acc[i].text],
             metadatas |-> [i \in DOMAIN cv_acc |-> cv_acc[i].metadata],
             ids |-> [i \in DOMAIN cv_acc |-> cv_acc[i].id]],
     project |->
         [texts |-> [i \in DOMAIN project_acc |-> project_acc[i].text],
          metadatas |-> [i \in DOMAIN project_acc |-> project_acc[i].metadata],
          ids |-> [i \in DOMAIN project_acc |->
                      "pr#" \o ToString(i - 1) \o "_" \o project_acc[i].id]]]

\* one call of generate_chunks
GenerateChunks ==
    /\ ing.generated < MaxGenerate
    /\ LET out == generate_chunks(cvs, cv_chunks, project_chunks,
                                  ing.chunk_size, ing.overlap)
       IN  /\ cv_chunks' = out.cv_chunks
           /\ project_chunks' = out.project_chunks
           /\ ing' = [ing EXCEPT !.op = "generate_chunks",
                                 !.generated = @ + 1,
                                 !.returned = out.returned]
    /\ UNCHANGED <<managerVars, tr, rc, cvs, now, ck, nz>>

\* a clear that empties the chunk lists as well
clear_all ==
    /\ cvs' = <<>>
    /\ cv_chunks' = <<>>
    /\ project_chunks' = <<>>
    /\ ing' = [ing EXCEPT !.op = "clear", !.returned = NoneVal]
    /\ UNCHANGED <<managerVars, tr, rc, now, ck, nz>>

\* CVCollection.clear
clear ==
    /\ cvs' = <<>>
    /\ ing' = [ing EXCEPT !.op = "clear", !.returned = NoneVal]
    /\ UNCHANGED <<managerVars, tr, rc, cv_chunks, project_chunks, now, ck, nz>>

Clear == clear

\* one call of prepare_chunks_qdrant
PrepareChunksQdrant ==
    /\ ing' = [ing EXCEPT !.op = "prepare_chunks_qdrant",
                          !.returned = prepare_chunks_qdrant(cv_chunks,
                                                             project_chunks)]
    /\ UNCHANGED <<managerVars, tr, rc, cvs, cv_chunks, project_chunks, now, ck, nz>>

\* The collections examined.  add_cv_from_file cannot put a CV into cvs (the
\* parser's PersonalInfo call raises), so the three methods are taken on
\* collections whose public list cvs was filled with CV objects built by the
\* dataclass constructors; a description is given as the chunker reads it.
AnnShop ==
    [project_name |-> "shop", candidate_name |-> "Ann Lee",
     description |-> <<<<"hijkl", "mn", "op">>>>, roles |-> <<"dev">>,
     cv_id |-> "Ann Lee_5"]

CVs ==
    {[cv_id |-> "Ann Lee_5",
      personal_info |-> [candidate_name |-> "Ann Lee", level |-> "SENIOR",
                         roles |-> <<"ml engineer">>, education |-> <<>>,
                         languages |-> <<"english b2">>, domains |-> <<>>,
                         description |-> <<<<"ab">>, <<"cd", "efg">>>>],
      projects |-> <<AnnShop>>],
     [cv_id |-> "Bo Ek_5",
      personal_info |-> [candidate_name |-> "Bo Ek", level |-> NoneVal,
                         roles |-> <<>>, education |-> <<>>,
                         languages |-> <<>>, domains |-> <<>>,
                         description |-> <<<<"ab">>>>],
      projects |-> <<>>]}

CollectionInit ==
    /\ cvs \in SeqsUpTo(CVs, MaxCvs)
    /\ cv_chunks = <<>> /\ project_chunks = <<>>
    /\ now = 0
    /\ ing \in {[op |-> "init", generated |-> 0, returned |-> NoneVal,
                 chunk_size |-> cs, overlap |-> ov] :
                    cs \in {5, 20}, ov \in {0, 20}}

IngestIdle ==
    /\ cvs = <<>> /\ cv_chunks = <<>> /\ project_chunks = <<>>
    /\ now = 0
    /\ ing = [op |-> "init", file |-> <<>>, name |-> NoneVal, at |-> 0,
              prev_name |-> NoneVal, prev_at |-> 0,
              raised |-> "none", wraps |-> "none", message |-> "",
              returned |-> NoneVal, projects |-> <<>>, cvs_before |-> 0]

ChunkerIdle == ck = [op |-> "init"]

NormalizerIdle == nz = [op |-> "init"]

Init == ManagerInit /\ TranslatorIdle /\ RecreateIdle /\ IngestIdle /\ ChunkerIdle
    /\ NormalizerIdle

Next ==
    \/ Connect
    \/ Disconnect
    \/ ListCollections
    \/ GetCollectionInfo
    \/ CreateCollection
    \/ DeleteCollection
    \/ InsertDocuments
    \/ Search
    \/ SearchByText
    \/ FilteredSearch

Spec == Init /\ [][Next]_vars

\* the filter translator alone, on every filter dict of the bounds
ManagerIdle ==
    /\ kind = "qdrant" /\ hasEmbedder = TRUE
    /\ is_connected = FALSE /\ client = "None"
    /\ store = [c \in Collections |-> Absent]
    /\ last = BlankRec("init", FALSE, "")

FilterInit ==
    ManagerIdle /\ TranslatorInit /\ RecreateIdle /\ IngestIdle /\ ChunkerIdle
    /\ NormalizerIdle

FilterNext ==
    \/ SkipField
    \/ TranslateField
    \/ FinishFilter

FilterSpec == FilterInit /\ [][FilterNext]_vars

\* the inserts that race with the lifecycle calls: the empty batch and the
\* batches of one record
RaceInsertArgs ==
    {a \in InsertArgs :
        /\ Len(a.ids) <= 1
        /\ Len(a.documents) = Len(a.ids)
        /\ Len(a.metadatas) = Len(a.ids)}

\* the collection lifecycle with recreate_collection taken one backend call
\* at a time, next to inserts by other callers of the same manager
RaceInsert ==
    \E c \in Collections, a \in RaceInsertArgs,
       bfail \in BackendFailures(IF kind = "qdrant" THEN 1 ELSE 2),
       efail \in EmbedderFailures(is_connected /\ hasEmbedder) :
        insert_documents(c, a, bfail, efail)

RaceNext ==
    \/ Connect
    \/ CreateCollection
    \/ DeleteCollection
    \/ RaceInsert
    \/ RecreateCollection

RaceSpec == Init /\ [][RaceNext]_vars

\* the sentence chunker alone, on every call of the bounds
ChunkInit ==
    ManagerIdle /\ TranslatorIdle /\ RecreateIdle /\ IngestIdle /\ ChunkerInit
    /\ NormalizerIdle

ChunkNext == ChunkBySentences \/ ChunkByWords \/ ChunkByFixedSize

ChunkSpec == ChunkInit /\ [][ChunkNext]_vars

\* the CVCollection with its parser and the clock
IngestNext ==
    \/ AddCvFromFile
    \/ ParseProjects
    \/ Tick

IngestInit ==
    ManagerIdle /\ TranslatorIdle /\ RecreateIdle /\ IngestIdle /\ ChunkerIdle
    /\ NormalizerIdle

IngestSpec == IngestInit /\ [][IngestNext]_vars

\* the text normalizer alone, on every call of the bounds
NormalizerNext == CleanLanguageEntry \/ ExtractBetweenMarkers

NormInit ==
    ManagerIdle /\ TranslatorIdle /\ RecreateIdle /\ IngestIdle /\ ChunkerIdle
    /\ NormalizerInit

NormSpec == NormInit /\ [][NormalizerNext]_vars

\* the chunk lists of a CVCollection that holds CVs
CollectionNext == GenerateChunks \/ Clear \/ PrepareChunksQdrant

CollectionSpecInit ==
    ManagerIdle /\ TranslatorIdle /\ RecreateIdle /\ CollectionInit
    /\ ChunkerIdle /\ NormalizerIdle

CollectionSpec == CollectionSpecInit /\ [][CollectionNext]_vars

(* ------------------------------ properties ---------------------------- *)

PublicOperations ==
    {"list_collections", "get_collection_info", "create_collection",
     "delete_collection", "insert_documents", "search", "filtered_search",
     "search_by_text"}

\* the default-safe return value: empty list, False, CollectionInfo of count 0
SafeDefault ==
    /\ last.rlist = <<>>
    /\ last.rbool = FALSE
    /\ last.rcount = 0
    /\ last.rdims = -1

\* C1: a public operation called while is_connected is false returns its
\* safe default, raises nothing, and calls neither the backend client nor the
\* embedder (both backend variants)
C1_DisconnectedIsNoOp ==
    (last.op \in PublicOperations /\ ~last.was_connected) =>
        /\ SafeDefault
        /\ last.raised = "none"
        /\ last.bcalls = <<>>
        /\ last.ecalls = 0

\* one step of C2: connect leaves is_connected equal to what it returned and returns false
\* without raising when the session cannot be set up; disconnect returns true
\* and leaves the manager disconnected; a repeated disconnect changes neither
\* is_connected nor the client handle; no other call changes is_connected. So
\* is_connected holds exactly when the latest connect/disconnect call was a
\* connect that returned true.
C2_Step ==
    /\ last'.op = "connect" =>
          /\ is_connected' = last'.rbool
          /\ last'.raised = "none"
          /\ (last'.bfailed => ~last'.rbool)
    /\ last'.op = "disconnect" =>
          /\ last'.rbool
          /\ last'.raised = "none"
          /\ ~is_connected'
    /\ (last'.op = "disconnect" /\ last'.prev_op = "disconnect") =>
          /\ is_connected' = is_connected
          /\ client' = client
    /\ last'.op \notin {"connect", "disconnect"} => is_connected' = is_connected

\* C2, over every step: is_connected is true exactly when the latest
\* connect/disconnect call was a connect that returned true, and a repeated
\* disconnect changes nothing
C2_ConnectDisconnect == [][C2_Step]_vars

\* a disconnect called right after a disconnect
C2_Witness == last.op = "disconnect" /\ last.prev_op = "disconnect"

BackendOperations ==
    {"list_collections", "get_collection_info", "create_collection",
     "delete_collection", "insert_documents", "search", "filtered_search"}

\* C3: on a connected manager, an operation in which the backend client call
\* raised returns its safe default, lets no exception out, and leaves
\* is_connected as it was
C3_BackendFailureAbsorbed ==
    (last.op \in BackendOperations /\ last.was_connected /\ last.bfailed) =>
        /\ SafeDefault
        /\ last.raised = "none"
        /\ is_connected = last.was_connected

\* a filtered search of a connected Qdrant manager whose query_points raised
C3_Witness ==
    /\ last.op = "filtered_search" /\ last.was_connected /\ last.bfailed
    /\ kind = "qdrant" /\ Len(last.bcalls) = 1

EmbeddingOperations ==
    {"insert_documents", "search", "filtered_search", "search_by_text"}

\* C4: when the embedder raises inside insert_documents, search,
\* filtered_search or search_by_text of a connected manager, the error
\* reaches the caller
C4_EmbeddingErrorPropagates ==
    (last.op \in EmbeddingOperations /\ last.was_connected /\ last.efailed) =>
        last.raised = "EmbeddingError"

CallerIds == {e.id : e \in Catalog}

\* the stored point a search result was made from
SourcePoints(r) ==
    {p \in Range(store[last.col].points) :
        /\ p.payload.text_id = r.id
        /\ p.payload.document = r.document
        /\ p.payload.metadata = r.metadata}

\* C5 (Qdrant): a successful insert_documents leaves, at point id i, a payload
\* whose text_id is the caller's i-th id; every stored payload carries a
\* caller id; every SearchResult carries the text_id of the stored record it
\* was made from, not that record's numeric point id
C5_CallerIdPreserved ==
    kind = "qdrant" =>
        /\ \A c \in Collections : \A p \in Range(store[c].points) :
              p.id \in Nat /\ p.payload.text_id \in CallerIds
        /\ (last.op = "insert_documents" /\ last.rbool) =>
              \A i \in DOMAIN last.bcalls[1].points :
                  \E p \in Range(store[last.col].points) :
                      /\ p.id = i - 1
                      /\ p.payload.text_id = last.ids[i]
        /\ last.op \in {"search", "filtered_search", "search_by_text"} =>
              \A k \in DOMAIN last.rlist :
                  /\ SourcePoints(last.rlist[k]) # {}
                  /\ \A p \in SourcePoints(last.rlist[k]) :
                        last.rlist[k].id # ToString(p.id)

\* a search that returned the record stored at point id 1
C5_Witness ==
    /\ kind = "qdrant"
    /\ last.op \in {"search", "filtered_search"}
    /\ Len(last.rlist) > 0
    /\ \E p \in SourcePoints(last.rlist[1]) : p.id = 1

\* the records (id, document, metadata) a collection holds
StoredRecords(c) ==
    {[id |-> p.payload.text_id, document |-> p.payload.document,
      metadata |-> p.payload.metadata] : p \in Range(store[c].points)}

Max3(a, b, c) ==
    IF a >= b /\ a >= c THEN a ELSE IF b >= c THEN b ELSE c

\* C6: an insert_documents call that returned true was given lists of one
\* length and has stored, for every position of its lists, the record
\* (ids[i], documents[i], metadatas[i])
C6_InsertStoresEveryPosition ==
    (last.op = "insert_documents" /\ last.rbool) =>
        \A i \in 1..Max3(Len(last.ids), Len(last.documents), Len(last.metadatas)) :
            /\ i <= Len(last.ids)
            /\ i <= Len(last.documents)
            /\ i <= Len(last.metadatas)
            /\ [id |-> last.ids[i], document |-> last.documents[i],
                metadata |-> last.metadatas[i]] \in StoredRecords(last.col)

\* a filtered_search that got as far as the backend and was answered
FilteredSearchAnswered ==
    /\ last.op = "filtered_search"
    /\ last.was_connected
    /\ Len(last.bcalls) = 1
    /\ ~last.bfailed

\* the stored points a filter lets through
MatchingPoints(c, flt) ==
    {p \in Range(store[c].points) : FilterHolds(p.payload, flt)}

\* C7: filtered_search hands its limit to the backend query and returns
\* min(limit, number of matching records) results, so never more than limit
C7_FilteredSearchHonoursLimit ==
    FilteredSearchAnswered =>
        /\ last.bcalls[1].limit = last.limit
        /\ Len(last.rlist) <= last.limit
        /\ Len(last.rlist) =
              Min2(last.limit,
                   Cardinality(MatchingPoints(last.col, last.bcalls[1].filter)))

\* what search does for the arguments of the last call, with the same
\* collaborator failures
SameSearch ==
    QdrantSearch(last.col, last.query, NoVec, last.limit,
                 IF last.bfailed THEN 1 ELSE 0, last.efailed)

\* C9: a filtered_search whose filters yield no condition issues the backend
\* query that search issues for the same collection, query and limit, and
\* returns the same list
C9_EmptyFilterIsPlainSearch ==
    (/\ last.op = "filtered_search"
     /\ last.filtersIsDict
     /\ build_filter_from_format(last.filters) = NoFilter) =>
        /\ last.bcalls = SameSearch.bcalls
        /\ last.rlist = SameSearch.rlist

(* -------------------- properties of the filter translator ------------- *)

RECURSIVE Flatten(_)
Flatten(ss) == IF Len(ss) = 0 THEN <<>> ELSE Head(ss) \o Flatten(Tail(ss))

\* the value list of a field: its list, a scalar as a list of one, nothing
\* when the key is missing
ListedValues(cfg) ==
    IF ~cfg.hasValues THEN <<>>
    ELSE IF cfg.values.isList THEN cfg.values.items
    ELSE <<cfg.values.scalar>>

\* must=true, also when the key is missing
IsMust(cfg) == ~cfg.hasMust \/ cfg.must

EqualityConditions(name, vs) ==
    [i \in DOMAIN vs |-> [key |-> "metadata." \o name, match |-> [value |-> vs[i]]]]

AnyOfCondition(name, vs) ==
    << [key |-> "metadata." \o name, match |-> [any |-> vs]] >>

\* every field's config is a mapping that lists its values
OnlyListFields(filters) ==
    \A i \in DOMAIN filters :
        /\ filters[i].config.isDict
        /\ filters[i].config.hasValues
        /\ filters[i].config.values.isList

Translated(cfg) ==
    /\ cfg.isDict
    /\ cfg.hasValues
    /\ IF cfg.values.isList THEN Len(cfg.values.items) > 0
       ELSE ~Falsy(cfg.values.scalar)

CoerceScalars(filters) ==
    [i \in DOMAIN filters |->
        IF filters[i].config.isDict /\ filters[i].config.hasValues
           /\ ~filters[i].config.values.isList
        THEN [filters[i] EXCEPT
                 !.config.values = ListOf(<<filters[i].config.values.scalar>>)]
        ELSE filters[i]]

\* the fields the claim lets through: mappings whose value list is not empty
NotSkippable(filters) ==
    SelectSeq(CoerceScalars(filters),
              LAMBDA f : f.config.isDict /\ Len(ListedValues(f.config)) > 0)

\* C10: fields that are no mapping or have an empty values list are skipped
\* and the others translated; a scalar values, falsy or not, is translated
\* like the list of that one value
C10_SkipAndCoerce ==
    tr.pc = "done" =>
        /\ tr.out = build_filter_from_format(NotSkippable(tr.filters))
        /\ tr.skipped = {tr.filters[i].name : i \in DOMAIN tr.filters}
                            \ {f.name : f \in Range(NotSkippable(tr.filters))}

\* C11: filtered_search on a connected manager with filters that are not a
\* mapping returns the empty list, raises nothing, and asks neither the
\* embedder nor the backend for anything
C11_InvalidFilterIsEmptyResult ==
    (last.op = "filtered_search" /\ last.was_connected /\ ~last.filtersIsDict) =>
        /\ last.rlist = <<>>
        /\ last.raised = "none"
        /\ last.bcalls = <<>>
        /\ last.ecalls = 0

\* a connected manager was asked a real query with a filter that is no mapping
C11_Witness ==
    /\ last.op = "filtered_search" /\ last.was_connected /\ ~last.filtersIsDict
    /\ last.query = "python"
    /\ Len(store[last.col].points) > 0

\* one step of C12: an insert whose backend call found the collection missing
\* returns false, made that one call only, and left the server as it was
C12_Step ==
    (/\ last' # last
     /\ last'.op = "insert_documents"
     /\ last'.bcalls # <<>>
     /\ ~Exists(last'.col)) =>
        /\ ~last'.rbool
        /\ Len(last'.bcalls) = 1
        /\ store' = store

\* C12, over every interleaving of insert_documents with delete_collection and
\* the steps of recreate_collection: an insert that reaches the backend while
\* the collection is missing returns false, is not retried, and does not
\* create the collection
C12_MissingCollectionFailsInsert == [][C12_Step]_vars

\* an insert of one record failed on the collection that a recreate_collection
\* in progress has deleted and not yet created again
C12_Witness ==
    /\ rc.pc = "create" /\ rc.found /\ rc.deleted
    /\ last.op = "insert_documents" /\ last.col = rc.col
    /\ Len(last.bcalls) = 1 /\ ~last.rbool
    /\ Len(last.ids) > 0
    /\ ~Exists(rc.col)

\* C19: in the list one chunk_by_sentences call returns, the i-th chunk has
\* chunk_number i and every chunk has chunks_overall equal to the length of the
\* list, whatever the caller's metadata holds under those two keys
C19_ChunkNumbering ==
    (ck.op = "chunk_by_sentences" /\ ck.pc = "returned") =>
        \A i \in 1..Len(ck.chunks) :
            /\ ck.chunks[i].metadata["chunk_number"] = i
            /\ ck.chunks[i].metadata["chunks_overall"] = Len(ck.chunks)
            /\ 1 <= ck.chunks[i].metadata["chunk_number"]
            /\ ck.chunks[i].metadata["chunk_number"]
                   <= ck.chunks[i].metadata["chunks_overall"]

\* a call returned several chunks for metadata that already held both keys
C19_Witness ==
    /\ ck.op = "chunk_by_sentences" /\ ck.pc = "returned"
    /\ Len(ck.chunks) >= 2
    /\ {"chunk_number", "chunks_overall"} \subseteq DOMAIN ck.meta

\* the source ids a call of the bounds can have used
SourceIds == {source_id(ck.meta, n) : n \in 0..(3 * MaxSentences)}

\* C20: the ids of the chunks of one source text are {source_id}_chunk#{n} with
\* one source_id for all of them and n the chunk_number, and no two chunks of
\* the batch share an id
C20_ChunkIds ==
    (ck.op = "chunk_by_sentences" /\ ck.pc = "returned") =>
        /\ \E src \in SourceIds :
              \A i \in 1..Len(ck.chunks) :
                  ck.chunks[i].id =
                      src \o "_chunk#" \o ToString(ck.chunks[i].metadata["chunk_number"])
        /\ \A i, j \in 1..Len(ck.chunks) :
              i # j => ck.chunks[i].id # ck.chunks[j].id

\* what a parse at time t of the file returns, the cv_id left out
ParsedFields(file, t) ==
    LET cv == parse(file, t)
    IN  IF cv.raised = "none"
        THEN <<"CV", cv.value.personal_info, cv.value.projects>>
        ELSE <<cv.raised, cv.message>>

\* C13: parse of a document with at least 3 non-empty paragraphs and the two
\* tables returns a CV and raises nothing, and a parse of the same document
\* at any other time returns the same fields, the cv_id apart
C13_ParseTotalDeterministic ==
    (ing.op = "add_cv_from_file" /\ WellFormed(ing.file)) =>
        /\ ing.raised = "none"
        /\ ing.returned # NoneVal
        /\ \A t \in 0..MaxTime :
              ParsedFields(ing.file, t) = ParsedFields(ing.file, ing.at)

\* the message of the error parse wraps for a document short of paragraphs
\* or without tables
StructuralMessage(file) ==
    IF Len(stripped_paragraphs(file)) < 3
    THEN "Expected at least 3 paragraphs, got "
             \o ToString(Len(stripped_paragraphs(file)))
    ELSE "Document has no tables"

\* C14: parse of a document with fewer than 3 non-empty paragraphs or without
\* tables raises a ValueError that carries the file path and the message of
\* the error it wraps, the paragraph test going first, and no CV is returned
\* or added
C14_StructuralError ==
    (/\ ing.op = "add_cv_from_file"
     /\ ing.file.exists /\ ing.file.docx /\ ing.file.opens
     /\ (Len(stripped_paragraphs(ing.file)) < 3 \/ ing.file.tables = <<>>)) =>
        /\ ing.raised = "ValueError"
        /\ ing.wraps = "ValueError"
        /\ ing.message = "Error parsing DOCX file " \o ing.file.path \o ": "
                             \o StructuralMessage(ing.file)
        /\ ing.returned = NoneVal
        /\ Len(cvs) = ing.cvs_before

\* a document with two non-empty paragraphs among three and no tables was
\* refused for its paragraphs
C14_Witness ==
    /\ ing.op = "add_cv_from_file"
    /\ ing.file.exists /\ ing.file.docx /\ ing.file.opens
    /\ Len(ing.file.paragraphs) = 3
    /\ Len(stripped_paragraphs(ing.file)) = 2
    /\ ing.file.tables = <<>>
    /\ ing.raised = "ValueError"

\* the data rows of the projects table that have at least 2 cells
ParsableRows(file) ==
    SelectSeq(Tail(file.tables[2]), LAMBDA row : Len(row) >= 2)

\* C15: _parse_projects returns one project for every data row of at least 2
\* cells, in row order, none for the header row and none for a row that
\* fails, and the empty list for a document of fewer than 2 tables
C15_ProjectRowsNonFatal ==
    (ing.op = "_parse_projects") =>
        IF Len(ing.file.tables) < 2 THEN ing.projects = <<>>
        ELSE /\ Len(ing.projects) = Len(ParsableRows(ing.file))
             /\ \A i \in 1..Len(ing.projects) :
                   /\ ing.projects[i].project_name =
                          normalize(ParsableRows(ing.file)[i][1][1])
                   /\ ing.projects[i] =
                          parse_project_row(ParsableRows(ing.file)[i], "", "").value

\* a projects table whose first data row has one cell and whose second parses
C15_Witness ==
    /\ ing.op = "_parse_projects"
    /\ Len(ing.file.tables) = 2
    /\ Len(ing.file.tables[2]) = 3
    /\ Len(ing.file.tables[2][2]) < 2
    /\ Len(ing.projects) = 1
    /\ ing.projects[1].project_name = "shop"

\* C16: an add_cv_from_file that fails leaves cvs as it was, and one on a
\* well-formed document succeeds and appends its CV
C16_BadDocumentDoesNotBlock ==
    (ing.op = "add_cv_from_file") =>
        /\ (ing.raised # "none" => Len(cvs) = ing.cvs_before)
        /\ (ing.raised # "none" => cv_chunks = <<>> /\ project_chunks = <<>>)
        /\ (WellFormed(ing.file) =>
               /\ ing.raised = "none"
               /\ Len(cvs) = ing.cvs_before + 1
               /\ cvs[Len(cvs)].cv_id = ing.returned)

OwnerIds(file) == {cv_id(stripped_paragraphs(file)[1], t) : t \in 0..MaxTime}

\* C18: every project parsed from a document carries the cv_id of the CV of
\* that document, and so does the CV_id of the project's metadata
C18_ProjectReferencesCv ==
    (ing.op = "_parse_projects" /\ WellFormed(ing.file)) =>
        \A i \in 1..Len(ing.projects) :
            /\ ing.projects[i].cv_id \in OwnerIds(ing.file)
            /\ ProjectMetadata(ing.projects[i]).CV_id \in OwnerIds(ing.file)

(* ------------------------- chunk_by_sentences ------------------------- *)

SentenceCallDone == ck.op = "chunk_by_sentences" /\ ck.pc # "called"

SentenceCallReturned == ck.op = "chunk_by_sentences" /\ ck.pc = "returned"

\* whether the tokens p are the start of the tokens s
StartsWith(s, p) == Len(p) <= Len(s) /\ SubSeq(s, 1, Len(p)) = p

\* the last k words of a list, all of them when it has fewer
last_words(words, k) ==
    SubSeq(words, Len(words) - Min2(k, Len(words)) + 1, Len(words))

\* C21: the seed that follows a flush is made of the last floor(overlap/10)
\* words of the flushed buffer, all its words when it has fewer, and of no word
\* at all when overlap < 10
C21_SeedWords ==
    SentenceCallDone =>
        \A i \in DOMAIN ck.log :
            ck.log[i].ev = "flush" =>
                split(ck.log[i].seed) =
                    last_words(split(ck.log[i].buffer), ck.overlap \div 10)

\* the words the input texts are made of
Vocabulary == UNION {Range(seg) : seg \in Segments}

\* a word without the full stop the loop put behind it
Bare(w) == IF \E v \in Vocabulary : w = v \o "." THEN
               CHOOSE v \in Vocabulary : w = v \o "."
           ELSE w

\* the words of the returned texts in order, the seed words of each left out
BodyWords ==
    LET body == Flatten([i \in DOMAIN ck.texts |->
                            slice_from(split(ck.texts[i]), ck.seeded[i])])
    IN  [i \in DOMAIN body |-> Bare(body[i])]

\* C22: the texts of the returned chunks, read in order without their seed
\* words, are the non-empty sentences of the input, each once and in order,
\* the sentences that went through the long-sentence fallback included
C22_Coverage ==
    SentenceCallReturned =>
        /\ BodyWords =
              Flatten([i \in DOMAIN sentences_of(ck.text) |->
                          split(sentences_of(ck.text)[i])])
        /\ \A i \in DOMAIN ck.chunks : ck.chunks[i].text = text_of(ck.texts[i])

C22_Witness ==
    /\ SentenceCallReturned
    /\ Len(sentences_of(ck.text)) = 3
    /\ \E i \in DOMAIN ck.log : ck.log[i].ev = "fallback"
    /\ \E i \in DOMAIN ck.seeded : ck.seeded[i] > 0
    /\ Len(ck.chunks) > 3

\* C30: once a sentence has been appended the buffer is never empty again, so
\* the fallback is applied only before the first append; a later sentence
\* longer than chunk_size is appended whole behind the seed, with no second
\* size test, and the text that holds it is emitted
C30_FallbackOnlyBeforeFirstFit ==
    SentenceCallDone =>
        /\ \A i, j \in DOMAIN ck.log :
              (i < j /\ ck.log[i].ev = "append") => ck.log[j].ev # "fallback"
        /\ \A i \in DOMAIN ck.log :
              ck.log[i].ev = "flush" =>
                  /\ ck.log[i].seed # <<>>
                  /\ ck.log[i + 1].ev = "append"
                  /\ (ck.pc = "returned" =>
                        \E k \in DOMAIN ck.texts :
                            StartsWith(ck.texts[k],
                                       ck.log[i].seed
                                           \o Terminated(ck.log[i + 1].sentence)))

\* a sentence longer than chunk_size met after the first append, kept whole in
\* a returned chunk that is longer than chunk_size
C30_Witness ==
    /\ SentenceCallReturned
    /\ \E i \in DOMAIN ck.log :
          /\ ck.log[i].ev = "flush"
          /\ len(ck.log[i + 1].sentence) > ck.chunk_size
          /\ \E k \in DOMAIN ck.texts :
                /\ len(ck.texts[k]) > ck.chunk_size
                /\ StartsWith(ck.texts[k],
                              ck.log[i].seed
                                  \o Terminated(ck.log[i + 1].sentence))

(* --------------------------- window strategies ------------------------ *)

\* the k-th window of a strategy: n items taken at (k - 1) * stride
WindowAt(items, k, n, stride) ==
    slice(items, (k - 1) * stride, (k - 1) * stride + n)

\* every position of the items lies in one of the count windows
Covered(items, count, n, stride) ==
    \A p \in 0..(Len(items) - 1) :
        \E k \in 1..count : (k - 1) * stride <= p /\ p < (k - 1) * stride + n

\* C27: with 0 <= overlap < chunk_size no strategy raises; the fixed-size
\* windows are the chunk_size characters found every chunk_size - overlap
\* characters, the word windows (default words_per_chunk) are the
\* words_per_chunk words found every words_per_chunk - overlap//5 words, and
\* every character, every word of the input lies in one window at least
C27_WindowsTerminateAndCover ==
    (ck.op # "init" /\ ck.pc # "called"
       /\ 0 <= ck.overlap /\ ck.overlap < ck.chunk_size) =>
        /\ ck.raised = "none"
        /\ ck.op = "chunk_by_fixed_size" =>
              LET stride == ck.chunk_size - ck.overlap
              IN  /\ \A k \in DOMAIN ck.texts :
                        ck.texts[k] = WindowAt(ck.text, k, ck.chunk_size, stride)
                  /\ Covered(ck.text, Len(ck.texts), ck.chunk_size, stride)
        /\ (ck.op = "chunk_by_words"
              /\ ck.words_per_chunk = DefaultWordsPerChunk) =>
              LET stride == ck.words_per_chunk - ck.overlap \div 5
              IN  /\ \A k \in DOMAIN ck.texts :
                        ck.texts[k] = join(WindowAt(split(ck.text), k,
                                                    ck.words_per_chunk, stride))
                  /\ Covered(split(ck.text), Len(ck.texts),
                             ck.words_per_chunk, stride)

(* ----------------------------- text normalizer ------------------------ *)

ExtractReturned == nz.op = "extract_between_markers" /\ nz.pc = "returned"

\* the positions of a marker in the lines, counted from 1
Occurrences(lines, marker) == {i \in DOMAIN lines : lines[i] = marker}

First(positions) == CHOOSE i \in positions : \A j \in positions : i <= j

\* C23: extract_between_markers returns the empty list when the start marker
\* is absent; otherwise the normalized lines strictly after the first start
\* marker, up to the first end marker that comes after that start (an end
\* marker before it is ignored), and all the lines after the start when no
\* end marker follows it
C23_BetweenMarkers ==
    ExtractReturned =>
        LET starts == Occurrences(nz.lines, nz.start_marker)
        IN  IF starts = {} THEN nz.returned = <<>>
            ELSE LET first == First(starts)
                     ends == {i \in Occurrences(nz.lines, nz.end_marker) :
                                 i > first}
                     stop == IF ends = {} THEN Len(nz.lines) + 1 ELSE First(ends)
                 IN  nz.returned =
                         [k \in 1..(stop - first - 1) |->
                             normalize(nz.lines[first + k])]

CleanReturned == nz.op = "clean_language_entry" /\ nz.pc = "returned"

\* C24: when the entry holds a CEFR pattern clean_language_entry returns the
\* level UPPER(letter)+digits, also for a lower-case letter, and as cleaned
\* text the normalized, lower-cased language name followed by that upper-case
\* level; when neither pattern is found it returns (normalize(text), None)
C24_LanguageEntry ==
    CleanReturned =>
        LET s == nz.text
            i == level_search(s)
            q == skip_separators(s, i + 1)
            level == <<upper_char(s[i])>> \o SubSeq(s, q, q + digit_run(s, q) - 1)
            name == level_entry(s, i).text
        IN  /\ i # 0 =>
                  /\ nz.returned.level = level
                  /\ nz.returned.text =
                         normalize_chars(SubSeq(name, 1, Len(name) - Len(level)))
                             \o <<" ">> \o level
            /\ (i = 0 /\ fallback_search(s) = 0) =>
                  nz.returned = [text |-> normalize_chars(s), level |-> NoneVal]

(* ------------------------- Qdrant point ids --------------------------- *)

\* the number of points a Qdrant insert builds from the call recorded in r
BatchSize(r) == Min2(Len(r.ids), Min2(Len(r.documents), Len(r.metadatas)))

C25_Step ==
    (kind = "qdrant" /\ last'.op = "insert_documents" /\ last'.rbool) =>
        LET c == last'.col
            n == BatchSize(last')
            before == store[c].points
            after == store'[c].points
        IN  /\ Len(after) = IF Len(before) > n THEN Len(before) ELSE n
            /\ \A i \in DOMAIN after :
                  /\ after[i].id = i - 1
                  /\ i <= n => after[i].payload.text_id = last'.ids[i]
                  /\ i > n => after[i] = before[i]

\* C25: a Qdrant insert numbers the points of its batch 0..n-1, so a batch
\* replaces the points of the earlier batches at the same positions: after a
\* successful insert of n records the collection holds max(held before, n)
\* points, the first n of them the new batch, and what the earlier batches
\* had put at those positions is gone although their inserts returned true
C25_LaterBatchOverwrites == [][C25_Step]_vars

\* a batch of one inserted into a collection that held two points: two points
\* remain and the first of them is the new record
C25_Witness ==
    /\ kind = "qdrant"
    /\ last.op = "insert_documents" /\ last.rbool
    /\ BatchSize(last) = 1
    /\ Len(store[last.col].points) = 2
    /\ store[last.col].points[1].payload.text_id = last.ids[1]
    /\ store[last.col].points[2].payload.text_id # last.ids[1]

(* -------------------------- connection state -------------------------- *)

C28_Step ==
    last'.op \notin {"connect", "disconnect"} =>
        /\ is_connected' = is_connected
        /\ client' = client

\* C28: whenever is_connected is true the client handle is set, and no
\* operation other than connect and disconnect changes is_connected or the
\* client handle
C28_ConnectedHasClient ==
    /\ [](is_connected => client # "None")
    /\ [][C28_Step]_vars

\* a connected manager whose last operation failed at the backend and which is
\* still connected, its handle in place
C28_Witness ==
    /\ is_connected /\ client = "handle"
    /\ last.op \notin {"init", "connect", "disconnect"}
    /\ last.bfailed

(* ------------------------- recreate_collection ------------------------ *)

C26_Step ==
    (rc.pc = "create" /\ rc'.pc = "returned" /\ is_connected') =>
        /\ store'[rc.col].exists
        /\ store'[rc.col].points = <<>>
        /\ (~rc'.created \/ (rc.found /\ ~rc.deleted)) => rc'.result # NoneVal

\* C26: when recreate_collection(c) returns on a connected manager, c exists
\* and holds no record, whatever it held before and whatever the outcome of
\* the delete and create steps, and a failed step is reported to the caller
C26_RecreateLeavesEmpty == [][C26_Step]_vars

(* --------------------------- chunk lists ------------------------------ *)

\* what one generate_chunks over the CVs of the collection appends when no
\* chunker call raises
AllCvChunks ==
    Flatten([i \in DOMAIN cvs |->
                chunk_by_sentences(CvText(cvs[i]), CvMetadata(cvs[i]),
                                   ing.chunk_size, ing.overlap, 0).chunks])

AllProjectChunks ==
    Flatten([i \in DOMAIN cvs |->
                Flatten([j \in DOMAIN cvs[i].projects |->
                            chunk_by_sentences(cvs[i].projects[j].description,
                                               ProjectMetadata(cvs[i].projects[j]),
                                               ing.chunk_size, ing.overlap,
                                               0).chunks])])

C29_Step ==
    /\ StartsWith(cv_chunks', cv_chunks)
    /\ StartsWith(project_chunks', project_chunks)
    /\ (ing'.op = "generate_chunks" /\ ing'.generated = ing.generated + 1) =>
          /\ cvs' = cvs
          /\ ing'.returned = TRUE =>
                /\ cv_chunks' = cv_chunks \o AllCvChunks
                /\ project_chunks' = project_chunks \o AllProjectChunks
    /\ ing'.op = "clear" =>
          /\ cvs' = <<>>
          /\ cv_chunks' = cv_chunks
          /\ project_chunks' = project_chunks
    /\ ing'.op = "prepare_chunks_qdrant" =>
          /\ ing'.returned.cv.ids = [i \in DOMAIN cv_chunks |-> cv_chunks[i].id]
          /\ Len(ing'.returned.project.ids) = Len(project_chunks)
          /\ UNCHANGED <<cvs, cv_chunks, project_chunks>>

\* C29: cv_chunks and project_chunks only grow: every generate_chunks chunks
\* each CV that is in cvs again and appends the result, clear() empties cvs
\* and leaves both chunk lists as they are, and prepare_chunks_qdrant returns
\* what the lists hold, whether or not the CVs are still in the collection
C29_ChunkListsOnlyGrow == [][C29_Step]_vars

\* after two generate_chunks and a clear, prepare_chunks_qdrant returns the
\* chunks of a CV that is no longer in the collection, each of them twice
C29_Witness ==
    /\ ing.op = "prepare_chunks_qdrant"
    /\ ing.generated = 2
    /\ cvs = <<>>
    /\ Len(ing.returned.cv.ids) > 0
    /\ \A i \in DOMAIN ing.returned.cv.ids :
          Cardinality({j \in DOMAIN ing.returned.cv.ids :
                          ing.returned.cv.ids[j] = ing.returned.cv.ids[i]}) = 2
    /\ Len(ing.returned.project.ids) > 0

====
